---- MODULE Spec2Model ----
(***************************************************************************)
(* State-machine model of the skills repository's scripts.                 *)
(*                                                                         *)
(*   apply_replacements      pptx/scripts/replace.py                       *)
(*   DOCXSchemaValidator     pptx/ooxml/scripts/validation/docx.py         *)
(*   make_field_dict,        pdf/scripts/extract_form_field_info.py        *)
(*     get_field_info                                                      *)
(*   convert                 pdf/scripts/convert_pdf_to_images.py          *)
(*   convert_to_images,      pptx/scripts/thumbnail.py                     *)
(*     create_grids                                                        *)
(*   GIFBuilder              slack-gif-creator/core/gif_builder.py         *)
(*   validate_gif,           slack-gif-creator/core/validators.py          *)
(*     is_slack_ready                                                      *)
(*   package_skill           skill-creator/scripts/package_skill.py        *)
(*   init_skill              skill-creator/scripts/init_skill.py           *)
(*                                                                         *)
(* Python dicts are modelled as sequences of <<key, value>> pairs with     *)
(* unique keys (insertion order kept).  Lengths are in thousandths of an   *)
(* inch.  None is the empty sequence, a present value v is <<v>>.          *)
(***************************************************************************)
EXTENDS Integers, Sequences, FiniteSets, TLC

VARIABLES
    \* ---- apply_replacements (replace.py) ----
    pc,                 \* position inside apply_replacements
    pptx_file,          \* the input presentation (a fixture of PptxFiles)
    json_file,          \* the replacement document as written in the file
    inventory,          \* extract_text_inventory(pptx_file, prs)
    original_overflow,  \* detect_frame_overflow(inventory)
    replacements,       \* json.load(..., object_pairs_hook=check_duplicate_keys)
    errors,             \* validate_replacements(inventory, replacements)
    frames,             \* prs: slide -> shape -> paragraphs of the live text frame
    counts,             \* shapes_processed / shapes_cleared / shapes_replaced
    tmp,                \* the temporary .pptx: "none", "exists", "deleted"
    updated_inventory,  \* extract_text_inventory(tmp_path)
    updated_overflow,   \* detect_frame_overflow(updated_inventory)
    overflow_errors,    \* worsening-overflow errors of the gate
    warnings,           \* formatting warnings of the gate
    output_written,     \* prs.save(output_file) was called
    raised_at,          \* which step raised ("" when none did)
    log,                \* the steps executed so far, in order
    \* ---- DOCXSchemaValidator.validate (docx.py) ----
    vpc,                \* position inside validate()
    calls,              \* the methods validate() has invoked, in order
    outcomes,           \* what each invoked check returned, in order
    all_valid,          \* the local all_valid (<< >> before line 31)
    returned,           \* the value validate() returned (<< >> while running)
    printed,            \* the paragraph-count line compare_paragraph_counts printed
    \* ---- DOCXSchemaValidator.validate_whitespace_preservation (docx.py) ----
    wpc,                \* "call" before the method ran, "returned" after
    xml_files,          \* self.xml_files: the XML members of the unpacked package
    ws_errors,          \* the errors list of the method
    ws_return,          \* the value the method returned (<< >> before)
    \* ---- DOCXSchemaValidator.validate_deletions (docx.py) ----
    dpc,                \* "call" before the method ran, "returned" after
    del_files,          \* self.xml_files: the XML members of the unpacked package
    del_errors,         \* the errors list of the method
    del_return,         \* the value the method returned (<< >> before)
    \* ---- make_field_dict (extract_form_field_info.py) ----
    mpc,                \* "call" before the function ran, "returned" after
    mfd_field,          \* the argument field
    mfd_field_id,       \* the argument field_id
    field_dict,         \* the dict the function returned (<< >> before)
    mfd_printed,        \* the lines the function printed
    \* ---- get_field_info (extract_form_field_info.py) ----
    gpc,                \* "call" before the function ran, "returned" after
    reader,             \* the PdfReader: get_fields() and the pages' /Annots
    sorted_fields,      \* the list the function returned (<< >> before)
    gfi_printed,        \* the lines the function printed
    \* ---- convert (convert_pdf_to_images.py) ----
    cpc,                \* "loop" inside the page loop, "returned" after
    images,             \* convert_from_path(pdf_path, dpi=200): the page sizes
    max_dim,            \* the argument max_dim
    conv_i,             \* the loop index i
    saved,              \* the files written so far: path and image size
    \* ---- create_grids (thumbnail.py) ----
    grpc,               \* "loop" inside the chunk loop, "returned" after
    image_paths,        \* the argument image_paths
    cols,               \* the argument cols
    chunk_idx,          \* the loop index chunk_idx
    grid_files,         \* the grids saved so far: file name and images
    \* ---- convert_to_images (thumbnail.py) ----
    ipc,                \* position inside convert_to_images
    prs_slides,         \* prs.slides: the show attribute of each slide element
    hidden_slides,      \* the set hidden_slides (1-based slide numbers)
    visible_images,     \* sorted(temp_dir.glob("slide-*.jpg")): page numbers
    slide_num,          \* the loop variable slide_num
    visible_idx,        \* the local visible_idx
    all_images,         \* the list all_images
    \* ---- GIFBuilder.deduplicate_frames (gif_builder.py) ----
    gif_frames,         \* self.frames
    threshold,          \* the argument threshold, in ten-thousandths
    frames_before,      \* self.frames as each call so far found it
    removed,            \* the value each call so far returned
    frames_after,       \* self.frames as each call so far left it
    \* ---- GIFBuilder (gif_builder.py) ----
    gb_width,           \* self.width
    gb_height,          \* self.height
    gb_frames,          \* self.frames
    gb_info,            \* the report the last save() returned (<< >> when none)
    gb_raised,          \* the exception the last operation raised ("" when none)
    gb_reduction,       \* the frames before and after lines 208-217 of the last save()
    gb_ops,             \* the number of operations performed on the builder
    \* ---- validate_gif, is_slack_ready (validators.py) ----
    vg_calls,           \* the last two calls: arguments, what was at gif_path and what was returned
    \* ---- package_skill (package_skill.py) ----
    pkpc,               \* "call" before the function ran, "returned" after
    pk_skill,           \* what is at skill_path, and the validator's verdict on it
    pk_output_dir,      \* the argument output_dir (<< >> is None)
    pk_io,              \* whether writing the archive succeeds
    pk_archive,         \* the .skill file written (<< >> when none)
    pk_return,          \* the value returned (<< >> is None)
    pk_printed,         \* the last message printed
    \* ---- init_skill (init_skill.py) ----
    is_skill_name,      \* the argument skill_name
    is_target,          \* what is at <path>/<skill_name>
    is_calls            \* the calls so far: failing step, target before and after, value returned

replaceVars == <<pc, pptx_file, json_file, inventory, original_overflow,
                 replacements, errors, frames, counts, tmp, updated_inventory,
                 updated_overflow, overflow_errors, warnings, output_written,
                 raised_at, log>>

docxVars == <<vpc, calls, outcomes, all_valid, returned, printed>>

wsVars == <<wpc, xml_files, ws_errors, ws_return>>

delVars == <<dpc, del_files, del_errors, del_return>>

mfdVars == <<mpc, mfd_field, mfd_field_id, field_dict, mfd_printed>>

gfiVars == <<gpc, reader, sorted_fields, gfi_printed>>

convVars == <<cpc, images, max_dim, conv_i, saved>>

gridVars == <<grpc, image_paths, cols, chunk_idx, grid_files>>

imgVars == <<ipc, prs_slides, hidden_slides, visible_images, slide_num, visible_idx,
             all_images>>

gifVars == <<gif_frames, threshold, frames_before, removed, frames_after>>

builderVars == <<gb_width, gb_height, gb_frames, gb_info, gb_raised, gb_reduction, gb_ops>>

vgVars == <<vg_calls>>

packageVars == <<pkpc, pk_skill, pk_output_dir, pk_io, pk_archive, pk_return, pk_printed>>

scaffoldVars == <<is_skill_name, is_target, is_calls>>

vars == <<replaceVars, docxVars, wsVars, delVars, mfdVars, gfiVars, convVars,
          gridVars, imgVars, gifVars,
    builderVars,
    vgVars,
    packageVars,
    scaffoldVars>>

\* what each component leaves alone
notReplaceVars == <<docxVars, wsVars, delVars, mfdVars, gfiVars, convVars, gridVars,
    imgVars, gifVars,
    builderVars,
    vgVars,
    packageVars,
    scaffoldVars>>

notDocxVars == <<replaceVars, wsVars, delVars, mfdVars, gfiVars, convVars, gridVars,
    imgVars, gifVars,
    builderVars,
    vgVars,
    packageVars,
    scaffoldVars>>

notWsVars == <<replaceVars, docxVars, delVars, mfdVars, gfiVars, convVars, gridVars,
    imgVars, gifVars,
    builderVars,
    vgVars,
    packageVars,
    scaffoldVars>>

notDelVars == <<replaceVars, docxVars, wsVars, mfdVars, gfiVars, convVars, gridVars,
    imgVars, gifVars,
    builderVars,
    vgVars,
    packageVars,
    scaffoldVars>>

notMfdVars == <<replaceVars, docxVars, wsVars, delVars, gfiVars, convVars, gridVars,
    imgVars, gifVars,
    builderVars,
    vgVars,
    packageVars,
    scaffoldVars>>

notGfiVars == <<replaceVars, docxVars, wsVars, delVars, mfdVars, convVars, gridVars,
    imgVars, gifVars,
    builderVars,
    vgVars,
    packageVars,
    scaffoldVars>>

notConvVars == <<replaceVars, docxVars, wsVars, delVars, mfdVars, gfiVars, gridVars,
    imgVars, gifVars,
    builderVars,
    vgVars,
    packageVars,
    scaffoldVars>>

notGridVars == <<replaceVars, docxVars, wsVars, delVars, mfdVars, gfiVars, convVars,
    imgVars, gifVars,
    builderVars,
    vgVars,
    packageVars,
    scaffoldVars>>

notImgVars == <<replaceVars, docxVars, wsVars, delVars, mfdVars, gfiVars, convVars,
    gridVars, gifVars,
    builderVars,
    vgVars,
    packageVars,
    scaffoldVars>>

notGifVars == <<replaceVars, docxVars, wsVars, delVars, mfdVars, gfiVars, convVars,
    gridVars, imgVars,
    builderVars,
    vgVars,
    packageVars,
    scaffoldVars>>

notBuilderVars == <<replaceVars, docxVars, wsVars, delVars, mfdVars,
    gfiVars, convVars, gridVars, imgVars, gifVars,
    vgVars,
    packageVars,
    scaffoldVars>>

notVgVars == <<replaceVars, docxVars, wsVars, delVars, mfdVars,
    gfiVars, convVars, gridVars, imgVars, gifVars, builderVars,
    packageVars,
    scaffoldVars>>

notPackageVars == <<replaceVars, docxVars, wsVars, delVars, mfdVars,
    gfiVars, convVars, gridVars, imgVars, gifVars, builderVars, vgVars,
    scaffoldVars>>

notScaffoldVars == <<replaceVars, docxVars, wsVars, delVars, mfdVars,
    gfiVars, convVars, gridVars, imgVars, gifVars, builderVars, vgVars, packageVars>>

-----------------------------------------------------------------------------
(* Python dict helpers *)

Keys(d) == {d[i][1] : i \in 1..Len(d)}

HasKey(d, k) == \E i \in 1..Len(d) : d[i][1] = k

Get(d, k, default) ==
    IF HasKey(d, k) THEN d[CHOOSE i \in 1..Len(d) : d[i][1] = k][2] ELSE default

RECURSIVE Flatten(_)
Flatten(seqs) ==
    IF Len(seqs) = 0 THEN << >> ELSE Head(seqs) \o Flatten(Tail(seqs))

-----------------------------------------------------------------------------
(* Bounds and input universes *)

\* most key/value pairs (slide entries plus shape entries) in a replacement document
MaxEntries == 3

\* 0.01 inch rounding tolerance of the overflow gate, in thousandths of an inch
Tolerance == 10

DocSlideKeys == {"slide-0", "slide-1", "slide-7", "notes"}

DocShapeKeys == {"shape-0", "shape-1", "shape-5"}

\* iteration order of the inventory (slides by index, shapes by position)
SlideOrder == <<"slide-0", "slide-1", "slide-7">>

ShapeOrder == <<"shape-0", "shape-1", "shape-5">>

\* str.startswith("slide-") over the keys of the model
StartsWithSlide(k) == k \in {"slide-0", "slide-1", "slide-7"}

\* int(slide_key.split("-")[1])
SlideIndex(k) ==
    CASE k = "slide-0" -> 0
      [] k = "slide-1" -> 1
      [] k = "slide-7" -> 7

\* paragraph specs of the replacement documents (raw JSON objects)
ParaA == << <<"text", "A">> >>

ParaBold == << <<"bold", "true">> >>

ParaDup == << <<"text", "A">>, <<"text", "B">> >>

\* shape objects of the replacement documents (raw JSON objects)
ShapeObjs ==
    { << >>,
      << <<"paragraphs", << >> >> >>,
      << <<"left", "1.0">>, <<"paragraphs", <<ParaA, ParaBold>> >> >>,
      << <<"paragraphs", << >> >>, <<"paragraphs", <<ParaA>> >> >>,
      << <<"paragraphs", <<ParaDup>> >> >> }

ShapePairs == {<<k, o>> : k \in DocShapeKeys, o \in ShapeObjs}

\* slide objects with at most n shape entries
RECURSIVE SlideObjs(_)
SlideObjs(n) ==
    IF n <= 0 THEN { << >> }
    ELSE { << >> } \cup {<<p>> \o rest : p \in ShapePairs, rest \in SlideObjs(n - 1)}

\* replacement documents with at most b entries in all
RECURSIVE Docs(_)
Docs(b) ==
    IF b <= 0 THEN { << >> }
    ELSE { << >> } \cup
         UNION { {<< <<k, o>> >> \o rest : k \in DocSlideKeys,
                                           rest \in Docs(b - 1 - Len(o))}
                 : o \in SlideObjs(b - 1) }

\* ShapeData of the inventory: first-paragraph texts, measured bottom overflow,
\* warnings and the back-reference to the live shape
ShapeData(texts, overflow, warns, s, h) ==
    [paragraphs |-> texts, frame_overflow_bottom |-> overflow,
     warnings |-> warns, shape |-> <<s, h>>]

\* the input presentations: slide -> shape -> ShapeData, len(prs.slides)
Pptx1 ==
    [slides |-> 2,
     shapes |-> ("slide-0" :> ("shape-0" :> ShapeData(<<"Title">>, << >>, << >>, "slide-0", "shape-0")
                            @@ "shape-1" :> ShapeData(<<"Body", "More">>, <<40>>, << >>, "slide-0", "shape-1")))]

Pptx2 ==
    [slides |-> 2,
     shapes |-> ("slide-0" :> ("shape-0" :> ShapeData(<<"Intro">>, <<0>>, << >>, "slide-0", "shape-0"))
              @@ "slide-1" :> ("shape-0" :> ShapeData(<<"">>, << >>, << >>, "slide-1", "shape-0")))]

PptxFiles == {Pptx1, Pptx2}

\* what the re-inventory of the temporary copy can report for one shape:
\* a measured bottom overflow (or none) and its formatting warnings
PostShapeData ==
    { [frame_overflow_bottom |-> << >>, warnings |-> << >>],
      [frame_overflow_bottom |-> <<5>>, warnings |-> << >>],
      [frame_overflow_bottom |-> <<10>>, warnings |-> << >>],
      [frame_overflow_bottom |-> <<50>>, warnings |-> << >>],
      [frame_overflow_bottom |-> <<60>>, warnings |-> << >>],
      [frame_overflow_bottom |-> << >>, warnings |-> <<"bullet symbol in text">>] }

-----------------------------------------------------------------------------
(* replace.py: pure functions *)

\* the paragraph of a text frame
Paragraph(text, bold) == [text |-> text, bold |-> bold]

\* text_frame.clear(): one paragraph left, without runs
ClearedFrame == << Paragraph("", "inherit") >>

\* apply_paragraph_properties / apply_font_properties on a run-less paragraph
apply_paragraph_properties(para_data) ==
    Paragraph(Get(para_data, "text", ""),
              IF HasKey(para_data, "bold") THEN Get(para_data, "bold", "") ELSE "inherit")

\* detect_frame_overflow: only shapes with a measured overflow are included
detect_frame_overflow(inv) ==
    LET measured(s) == {h \in DOMAIN inv[s] : inv[s][h].frame_overflow_bottom # << >>}
    IN  [s \in {t \in DOMAIN inv : measured(t) # {}} |->
            [h \in measured(s) |-> inv[s][h].frame_overflow_bottom[1]]]

\* overflow_map.get(slide_key, {}).get(shape_key, default)
OverflowGet(map, s, h, default) ==
    IF s \in DOMAIN map /\ h \in DOMAIN map[s] THEN map[s][h] ELSE default

\* check_duplicate_keys, the loop over the pairs
RECURSIVE check_duplicate_keys_loop(_, _)
check_duplicate_keys_loop(pairs, result) ==
    IF Len(pairs) = 0 THEN [raised |-> FALSE, result |-> result]
    ELSE IF HasKey(result, Head(pairs)[1]) THEN [raised |-> TRUE, result |-> << >>]
    ELSE check_duplicate_keys_loop(Tail(pairs), Append(result, Head(pairs)))

check_duplicate_keys(pairs) == check_duplicate_keys_loop(pairs, << >>)

\* mutant: the hook is not applied to the objects inside a "paragraphs" list
JsonLoadParagraphs_NoHook(raw) == [raised |-> FALSE, result |-> raw]

\* json.load with object_pairs_hook: the hook runs on every object, innermost first
JsonLoadParagraphs(raw) ==
    LET loaded == [i \in 1..Len(raw) |-> check_duplicate_keys(raw[i])]
    IN  IF \E i \in 1..Len(raw) : loaded[i].raised
        THEN [raised |-> TRUE, result |-> << >>]
        ELSE [raised |-> FALSE, result |-> [i \in 1..Len(raw) |-> loaded[i].result]]

JsonLoadShape(raw) ==
    LET loaded == [i \in 1..Len(raw) |->
                     IF raw[i][1] = "paragraphs" THEN JsonLoadParagraphs(raw[i][2])
                     ELSE [raised |-> FALSE, result |-> raw[i][2]]]
    IN  IF \E i \in 1..Len(raw) : loaded[i].raised
        THEN [raised |-> TRUE, result |-> << >>]
        ELSE check_duplicate_keys([i \in 1..Len(raw) |-> <<raw[i][1], loaded[i].result>>])

JsonLoadSlide(raw) ==
    LET loaded == [i \in 1..Len(raw) |-> JsonLoadShape(raw[i][2])]
    IN  IF \E i \in 1..Len(raw) : loaded[i].raised
        THEN [raised |-> TRUE, result |-> << >>]
        ELSE check_duplicate_keys([i \in 1..Len(raw) |-> <<raw[i][1], loaded[i].result>>])

json_load(raw) ==
    LET loaded == [i \in 1..Len(raw) |-> JsonLoadSlide(raw[i][2])]
    IN  IF \E i \in 1..Len(raw) : loaded[i].raised
        THEN [raised |-> TRUE, result |-> << >>]
        ELSE check_duplicate_keys([i \in 1..Len(raw) |-> <<raw[i][1], loaded[i].result>>])

\* validate_replacements: the list of shapes of the slide without a replacement
UnusedWithContent(inv, slide_key, shapes_data) ==
    LET unused == SelectSeq(ShapeOrder,
                            LAMBDA k : k \in DOMAIN inv[slide_key] /\ ~HasKey(shapes_data, k))
    IN  [i \in 1..Len(unused) |->
            LET paragraphs == inv[slide_key][unused[i]].paragraphs
            IN  [key |-> unused[i],
                 preview |-> IF Len(paragraphs) > 0 /\ paragraphs[1] # ""
                             THEN <<paragraphs[1]>> ELSE << >>]]

\* mutant: the shape keys of a known slide are not checked
SlideErrors_NoShapeCheck(inv, slide_key, shapes_data) ==
    IF StartsWithSlide(slide_key) /\ slide_key \notin DOMAIN inv
    THEN << [kind |-> "slide", slide |-> slide_key, shape |-> "", unused |-> << >>] >>
    ELSE << >>

\* validate_replacements: the errors of one entry of the replacement document
SlideErrors(inv, slide_key, shapes_data) ==
    IF ~StartsWithSlide(slide_key) THEN << >>
    ELSE IF slide_key \notin DOMAIN inv
    THEN << [kind |-> "slide", slide |-> slide_key, shape |-> "", unused |-> << >>] >>
    ELSE LET all == [i \in 1..Len(shapes_data) |->
                        [kind |-> "shape", slide |-> slide_key,
                         shape |-> shapes_data[i][1],
                         unused |-> UnusedWithContent(inv, slide_key, shapes_data)]]
         IN  SelectSeq(all, LAMBDA e : e.shape \notin DOMAIN inv[slide_key])

\* mutant: validation stops at the first problem
validate_replacements_FirstOnly(inv, repl) ==
    LET all == Flatten([i \in 1..Len(repl) |-> SlideErrors(inv, repl[i][1], repl[i][2])])
    IN  IF Len(all) = 0 THEN all ELSE <<all[1]>>

validate_replacements(inv, repl) ==
    Flatten([i \in 1..Len(repl) |-> SlideErrors(inv, repl[i][1], repl[i][2])])

\* lines 249-267: the shapes the mutation loop reaches
Processed(inv, slides) ==
    {<<s, h>> \in DocSlideKeys \X DocShapeKeys :
        /\ s \in DOMAIN inv
        /\ h \in DOMAIN inv[s]
        /\ StartsWithSlide(s)
        /\ SlideIndex(s) < slides}

Cleared(inv, slides) ==
    {p \in Processed(inv, slides) : Len(inv[p[1]][p[2]].shape) > 0}

\* lines 276-277
ReplacementShapeData(repl, s, h) == Get(Get(repl, s, << >>), h, << >>)

Replaced(inv, slides, repl) ==
    {p \in Cleared(inv, slides) : HasKey(ReplacementShapeData(repl, p[1], p[2]), "paragraphs")}

\* lines 272-289: the text frame of one cleared shape after the loop body
NewFrame(repl, s, h) ==
    LET data == ReplacementShapeData(repl, s, h)
        paras == Get(data, "paragraphs", << >>)
    IN  IF ~HasKey(data, "paragraphs") \/ Len(paras) = 0 THEN ClearedFrame
        ELSE [i \in 1..Len(paras) |-> apply_paragraph_properties(paras[i])]

\* lines 306-319: the slots of updated_overflow, in iteration order
AllSlots == Flatten([i \in 1..Len(SlideOrder) |->
                        [j \in 1..Len(ShapeOrder) |-> <<SlideOrder[i], ShapeOrder[j]>>]])

\* mutant: the tolerance is excluded (>= instead of >)
Worsened_NoSlack(new_overflow, original) == new_overflow >= original + Tolerance

Worsened(new_overflow, original) == new_overflow > original + Tolerance

OverflowErrors(orig, upd) ==
    LET slots == SelectSeq(AllSlots, LAMBDA p : p[1] \in DOMAIN upd /\ p[2] \in DOMAIN upd[p[1]])
        worse == SelectSeq(slots, LAMBDA p :
                    Worsened(upd[p[1]][p[2]], OverflowGet(orig, p[1], p[2], 0)))
    IN  [i \in 1..Len(worse) |->
            LET original == OverflowGet(orig, worse[i][1], worse[i][2], 0)
                new == upd[worse[i][1]][worse[i][2]]
            IN  [slide |-> worse[i][1], shape |-> worse[i][2],
                 increase |-> new - original, original |-> original, new |-> new]]

\* lines 321-327
Warnings(upd_inv) ==
    LET slots == SelectSeq(AllSlots,
                           LAMBDA p : p[1] \in DOMAIN upd_inv /\ p[2] \in DOMAIN upd_inv[p[1]])
    IN  Flatten([i \in 1..Len(slots) |->
            [j \in 1..Len(upd_inv[slots[i][1]][slots[i][2]].warnings) |->
                [slide |-> slots[i][1], shape |-> slots[i][2],
                 warning |-> upd_inv[slots[i][1]][slots[i][2]].warnings[j]]]])

-----------------------------------------------------------------------------
(* apply_replacements, step by step *)

Raise(step) ==
    /\ pc' = "raised"
    /\ raised_at' = step

\* lines 218-225: load the presentation, take its inventory, measure the overflow
Open ==
    /\ pc = "start"
    /\ inventory' = pptx_file.shapes
    /\ original_overflow' = detect_frame_overflow(pptx_file.shapes)
    /\ pc' = "load"
    /\ log' = Append(log, "open")
    /\ UNCHANGED <<pptx_file, json_file, replacements, errors, frames, counts, tmp,
                   updated_inventory, updated_overflow, overflow_errors, warnings,
                   output_written, raised_at>>
    /\ UNCHANGED notReplaceVars

\* lines 228-229: load the replacement document, rejecting duplicate keys
LoadJson ==
    /\ pc = "load"
    /\ LET r == json_load(json_file)
       IN  /\ replacements' = r.result
           /\ IF r.raised THEN Raise("load")
              ELSE pc' = "validate" /\ raised_at' = raised_at
    /\ log' = Append(log, "json.load")
    /\ UNCHANGED <<pptx_file, json_file, inventory, original_overflow, errors, frames,
                   counts, tmp, updated_inventory, updated_overflow, overflow_errors,
                   warnings, output_written>>
    /\ UNCHANGED notReplaceVars

\* lines 232-241: validate, raise when there is any error
Validate ==
    /\ pc = "validate"
    /\ errors' = validate_replacements(inventory, replacements)
    /\ IF Len(errors') > 0 THEN Raise("validate")
       ELSE pc' = "mutate" /\ raised_at' = raised_at
    /\ log' = Append(log, "validate_replacements")
    /\ UNCHANGED <<pptx_file, json_file, inventory, original_overflow, replacements,
                   frames, counts, tmp, updated_inventory, updated_overflow,
                   overflow_errors, warnings, output_written>>
    /\ UNCHANGED notReplaceVars

\* mutant: only the slides the replacement document mentions are processed
Mutate_OnlyMentionedSlides ==
    /\ pc = "mutate"
    /\ frames' = [s \in DOMAIN frames |-> [h \in DOMAIN frames[s] |->
                    IF <<s, h>> \in Cleared(inventory, pptx_file.slides) /\ HasKey(replacements, s)
                    THEN NewFrame(replacements, s, h)
                    ELSE frames[s][h]]]
    /\ counts' = counts
    /\ pc' = "tmpsave"
    /\ log' = Append(log, "mutate")
    /\ UNCHANGED <<pptx_file, json_file, inventory, original_overflow, replacements,
                   errors, tmp, updated_inventory, updated_overflow, overflow_errors,
                   warnings, output_written, raised_at>>
    /\ UNCHANGED notReplaceVars

\* lines 244-289: clear every inventoried shape, rebuild the replaced ones
Mutate ==
    /\ pc = "mutate"
    /\ frames' = [s \in DOMAIN frames |-> [h \in DOMAIN frames[s] |->
                    IF <<s, h>> \in Cleared(inventory, pptx_file.slides)
                    THEN NewFrame(replacements, s, h)
                    ELSE frames[s][h]]]
    /\ counts' = [processed |-> Cardinality(Processed(inventory, pptx_file.slides)),
                  cleared |-> Cardinality(Cleared(inventory, pptx_file.slides)),
                  replaced |-> Cardinality(Replaced(inventory, pptx_file.slides, replacements))]
    /\ pc' = "tmpsave"
    /\ log' = Append(log, "mutate")
    /\ UNCHANGED <<pptx_file, json_file, inventory, original_overflow, replacements,
                   errors, tmp, updated_inventory, updated_overflow, overflow_errors,
                   warnings, output_written, raised_at>>
    /\ UNCHANGED notReplaceVars

\* lines 296-298: create the temporary file (delete=False) and save into it;
\* a failing prs.save leaves the with-block before the try/finally is entered
SaveTemp ==
    /\ pc = "tmpsave"
    /\ tmp' = "exists"
    /\ \/ pc' = "reinventory" /\ raised_at' = raised_at
       \/ Raise("tmpsave")
    /\ log' = Append(log, "prs.save(tmp_path)")
    /\ UNCHANGED <<pptx_file, json_file, inventory, original_overflow, replacements,
                   errors, frames, counts, updated_inventory, updated_overflow,
                   overflow_errors, warnings, output_written>>
    /\ UNCHANGED notReplaceVars

\* the slide/shape pairs of an inventory
InventorySlots(inv) ==
    {<<s, h>> \in (DOMAIN inv) \X DocShapeKeys : h \in DOMAIN inv[s]}

\* what extract_text_inventory can return for the temporary copy
PostInventories ==
    {[s \in DOMAIN inventory |-> [h \in DOMAIN inventory[s] |->
        ShapeData(<< >>, post[<<s, h>>].frame_overflow_bottom, post[<<s, h>>].warnings, s, h)]] :
        post \in [InventorySlots(inventory) -> PostShapeData]}

\* lines 300-304: re-inventory the temporary copy; finally unlink it
ReInventory ==
    /\ pc = "reinventory"
    /\ tmp' = "deleted"
    /\ \/ \E upd \in PostInventories :
            /\ updated_inventory' = upd
            /\ updated_overflow' = detect_frame_overflow(upd)
            /\ pc' = "gate"
            /\ raised_at' = raised_at
       \/ /\ Raise("reinventory")
          /\ UNCHANGED <<updated_inventory, updated_overflow>>
    /\ log' = Append(log, "tmp_path.unlink")
    /\ UNCHANGED <<pptx_file, json_file, inventory, original_overflow, replacements,
                   errors, frames, counts, overflow_errors, warnings, output_written>>
    /\ UNCHANGED notReplaceVars

\* lines 306-343: the quality gate
Gate ==
    /\ pc = "gate"
    /\ overflow_errors' = OverflowErrors(original_overflow, updated_overflow)
    /\ warnings' = Warnings(updated_inventory)
    /\ IF Len(overflow_errors') > 0 \/ Len(warnings') > 0 THEN Raise("gate")
       ELSE pc' = "save" /\ raised_at' = raised_at
    /\ log' = Append(log, "gate")
    /\ UNCHANGED <<pptx_file, json_file, inventory, original_overflow, replacements,
                   errors, frames, counts, tmp, updated_inventory, updated_overflow,
                   output_written>>
    /\ UNCHANGED notReplaceVars

\* line 346: save the presentation to output_file
SaveOutput ==
    /\ pc = "save"
    /\ output_written' = TRUE
    /\ pc' = "done"
    /\ log' = Append(log, "prs.save(output_file)")
    /\ UNCHANGED <<pptx_file, json_file, inventory, original_overflow, replacements,
                   errors, frames, counts, tmp, updated_inventory, updated_overflow,
                   overflow_errors, warnings, raised_at>>
    /\ UNCHANGED notReplaceVars

\* the text frames of the presentation as loaded
LoadedFrames(file) ==
    [s \in DOMAIN file.shapes |-> [h \in DOMAIN file.shapes[s] |->
        [i \in 1..Len(file.shapes[s][h].paragraphs) |->
            Paragraph(file.shapes[s][h].paragraphs[i], "inherit")]]]

ReplaceInit ==
    /\ pc = "start"
    /\ pptx_file \in PptxFiles
    /\ json_file \in Docs(MaxEntries)
    /\ inventory = << >>
    /\ original_overflow = << >>
    /\ replacements = << >>
    /\ errors = << >>
    /\ frames = LoadedFrames(pptx_file)
    /\ counts = [processed |-> 0, cleared |-> 0, replaced |-> 0]
    /\ tmp = "none"
    /\ updated_inventory = << >>
    /\ updated_overflow = << >>
    /\ overflow_errors = << >>
    /\ warnings = << >>
    /\ output_written = FALSE
    /\ raised_at = ""
    /\ log = << >>

ReplaceNext ==
    \/ Open
    \/ LoadJson
    \/ Validate
    \/ Mutate
    \/ SaveTemp
    \/ ReInventory
    \/ Gate
    \/ SaveOutput

-----------------------------------------------------------------------------
(* Properties of apply_replacements *)

\* the steps of the log
Logged(step) == \E i \in 1..Len(log) : log[i] = step

\* pre-edit overflow of an inventoried shape as the input file has it (0 when none)
PreOverflow(s, h) ==
    IF pptx_file.shapes[s][h].frame_overflow_bottom = << >> THEN 0
    ELSE pptx_file.shapes[s][h].frame_overflow_bottom[1]

\* the replacement file names a slide-* key or, under a known slide, a shape key
\* that the inventory of the input file does not have
NamesUnknownShape ==
    \E i \in 1..Len(json_file) :
        /\ StartsWithSlide(json_file[i][1])
        /\ json_file[i][1] \in DOMAIN pptx_file.shapes
        /\ \E j \in 1..Len(json_file[i][2]) :
              json_file[i][2][j][1] \notin DOMAIN pptx_file.shapes[json_file[i][1]]

NamesUnknownSlide ==
    \E i \in 1..Len(json_file) :
        /\ StartsWithSlide(json_file[i][1])
        /\ json_file[i][1] \notin DOMAIN pptx_file.shapes

NamesUnknownKey == NamesUnknownSlide \/ NamesUnknownShape

\* C1: when the replacement document names a slide-* key or a shape key that the
\* inventory of the input file lacks, apply_replacements never gets past
\* validation: it raises while every text frame is still as loaded, no temporary
\* copy exists and output_path was not written.
C1_UnknownKeyFailsBeforeMutation ==
    NamesUnknownKey =>
        /\ pc \in {"start", "load", "validate", "raised"}
        /\ pc = "raised" => raised_at \in {"load", "validate"}
        /\ frames = LoadedFrames(pptx_file)
        /\ tmp = "none"
        /\ ~output_written
        /\ ~Logged("mutate")

C1_Witness ==
    /\ pc = "raised"
    /\ raised_at = "validate"
    /\ NamesUnknownShape
    /\ ~NamesUnknownSlide
    /\ frames = LoadedFrames(pptx_file)

\* the post-edit inventory passes the gate: no shape carries a warning, and every
\* measured post-edit overflow is at most the pre-edit overflow plus 0.01 inch
PostEditAcceptable ==
    \A p \in InventorySlots(updated_inventory) :
        LET post == updated_inventory[p[1]][p[2]]
        IN  /\ Len(post.warnings) = 0
            /\ Len(post.frame_overflow_bottom) > 0 =>
                   post.frame_overflow_bottom[1] <= PreOverflow(p[1], p[2]) + 10

\* the re-inventory of the temporary copy returned a post-edit inventory
PostEditInventoryTaken == Logged("tmp_path.unlink") /\ raised_at # "reinventory"

\* C2: output_path is written exactly when validation passed and the post-edit
\* inventory has no warning and no overflow worse than the pre-edit overflow
\* plus 0.01 inch; the write is the last step and follows the gate.
C2_SaveIffGatePasses ==
    /\ pc \in {"done", "raised"} =>
          (output_written <=>
              /\ Logged("validate_replacements")
              /\ ~NamesUnknownKey
              /\ PostEditInventoryTaken
              /\ PostEditAcceptable)
    /\ output_written =>
          /\ pc = "done"
          /\ Len(log) >= 2
          /\ log[Len(log)] = "prs.save(output_file)"
          /\ log[Len(log) - 1] = "gate"
    /\ \A s \in DOMAIN updated_inventory : \A h \in DOMAIN updated_inventory[s] :
          /\ PreOverflow(s, h) = 0
          /\ updated_inventory[s][h].frame_overflow_bottom = <<50>>
          => ~output_written

\* saved although one shape went from no overflow to 0.005 inch
C2_Witness ==
    /\ pc = "done"
    /\ output_written
    /\ \E s \in DOMAIN updated_inventory : \E h \in DOMAIN updated_inventory[s] :
          /\ PreOverflow(s, h) = 0
          /\ updated_inventory[s][h].frame_overflow_bottom = <<5>>

\* some object of the raw document holds the same key twice
DupKeys(pairs) == \E i, j \in 1..Len(pairs) : i < j /\ pairs[i][1] = pairs[j][1]

DupAtTop == DupKeys(json_file)

DupInSlide == \E i \in 1..Len(json_file) : DupKeys(json_file[i][2])

DupInShape ==
    \E i \in 1..Len(json_file) : \E j \in 1..Len(json_file[i][2]) :
        DupKeys(json_file[i][2][j][2])

DupInParagraph ==
    \E i \in 1..Len(json_file) : \E j \in 1..Len(json_file[i][2]) :
        \E m \in 1..Len(json_file[i][2][j][2]) :
            /\ json_file[i][2][j][2][m][1] = "paragraphs"
            /\ \E n \in 1..Len(json_file[i][2][j][2][m][2]) :
                  DupKeys(json_file[i][2][j][2][m][2][n])

\* C3: a replacement document with a duplicate key in any object (top level,
\* slide, shape, paragraph spec) fails at load time: validate_replacements never
\* runs, no shape is mutated and no file is saved.
C3_DuplicateKeyFailsAtLoad ==
    (DupAtTop \/ DupInSlide \/ DupInShape \/ DupInParagraph) =>
        /\ pc \in {"start", "load", "raised"}
        /\ pc = "raised" => raised_at = "load"
        /\ ~Logged("validate_replacements")
        /\ frames = LoadedFrames(pptx_file)
        /\ tmp = "none"
        /\ ~output_written

C3_Witness ==
    /\ pc = "raised"
    /\ raised_at = "load"
    /\ DupInParagraph
    /\ ~(DupAtTop \/ DupInSlide \/ DupInShape)

\* the entries of the replacement file that validation must report
UnknownSlideEntries ==
    {i \in 1..Len(json_file) :
        StartsWithSlide(json_file[i][1]) /\ json_file[i][1] \notin DOMAIN pptx_file.shapes}

UnknownShapeEntries ==
    {<<i, j>> \in (1..Len(json_file)) \X (1..MaxEntries + 1) :
        /\ StartsWithSlide(json_file[i][1])
        /\ json_file[i][1] \in DOMAIN pptx_file.shapes
        /\ j <= Len(json_file[i][2])
        /\ json_file[i][2][j][1] \notin DOMAIN pptx_file.shapes[json_file[i][1]]}

\* C4: validate_replacements returns exactly one error per unknown slide-* key and
\* exactly one per unknown shape key of a known slide, and nothing else; each
\* unknown-shape error lists exactly the inventoried shapes of that slide that
\* have no entry in the slide object of the replacement document.
C4_AllErrorsCollected ==
    Logged("validate_replacements") =>
        /\ \A i \in UnknownSlideEntries :
              Cardinality({n \in 1..Len(errors) :
                  errors[n].kind = "slide" /\ errors[n].slide = json_file[i][1]}) = 1
        /\ \A e \in UnknownShapeEntries :
              LET slide == json_file[e[1]][1]
                  obj == json_file[e[1]][2]
                  hits == {n \in 1..Len(errors) :
                              /\ errors[n].kind = "shape"
                              /\ errors[n].slide = slide
                              /\ errors[n].shape = obj[e[2]][1]}
              IN  /\ Cardinality(hits) = 1
                  /\ \A n \in hits :
                        {errors[n].unused[m].key : m \in 1..Len(errors[n].unused)}
                          = {h \in DOMAIN pptx_file.shapes[slide] :
                                \A j \in 1..Len(obj) : obj[j][1] # h}
        /\ Len(errors) = Cardinality(UnknownSlideEntries) + Cardinality(UnknownShapeEntries)

\* the document names only shape-5 on a slide with two inventoried shapes, and an
\* unknown slide as well: two errors, the first listing both shapes
C4_Witness ==
    /\ Logged("validate_replacements")
    /\ Len(errors) = 2
    /\ errors[1].kind = "shape"
    /\ errors[1].shape = "shape-5"
    /\ Len(errors[1].unused) = 2
    /\ errors[2].kind = "slide"

\* the paragraph list the replacement file supplies for a slide/shape pair, as a
\* one-element set (empty when it supplies none)
SuppliedParagraphs(s, h) ==
    {json_file[i][2][j][2][m][2] :
        <<i, j, m>> \in {t \in (1..Len(json_file)) \X (1..MaxEntries + 1) \X (1..2) :
            /\ json_file[t[1]][1] = s
            /\ t[2] <= Len(json_file[t[1]][2])
            /\ json_file[t[1]][2][t[2]][1] = h
            /\ t[3] <= Len(json_file[t[1]][2][t[2]][2])
            /\ json_file[t[1]][2][t[2]][2][t[3]][1] = "paragraphs"}}

\* the text a paragraph spec carries ("" without a text key)
SpecText(para) ==
    IF \E i \in 1..Len(para) : para[i][1] = "text"
    THEN para[CHOOSE i \in 1..Len(para) : para[i][1] = "text"][2]
    ELSE ""

\* C5: after the mutation phase every inventoried shape, on every inventoried
\* slide, has lost its previous text; it holds the paragraphs of the supplied
\* list, text by text, when the replacement document supplies one for that very
\* slide and shape (one empty paragraph for an empty list), and one empty
\* paragraph otherwise.
C5_ClearedThenRebuilt ==
    Logged("mutate") =>
        \A s \in DOMAIN pptx_file.shapes : \A h \in DOMAIN pptx_file.shapes[s] :
            /\ \A list \in SuppliedParagraphs(s, h) :
                  IF Len(list) = 0
                  THEN /\ Len(frames[s][h]) = 1
                       /\ frames[s][h][1].text = ""
                  ELSE /\ Len(frames[s][h]) = Len(list)
                       /\ \A n \in 1..Len(list) : frames[s][h][n].text = SpecText(list[n])
            /\ SuppliedParagraphs(s, h) = {} =>
                  /\ Len(frames[s][h]) = 1
                  /\ frames[s][h][1].text = ""

\* one shape rebuilt with two paragraphs, another one on a slide the document does
\* not mention left empty
C5_Witness ==
    /\ Logged("mutate")
    /\ \E s \in DOMAIN pptx_file.shapes : \E h \in DOMAIN pptx_file.shapes[s] :
          /\ Len(frames[s][h]) = 2
          /\ frames[s][h][1].text = "A"
    /\ \E s \in DOMAIN pptx_file.shapes : \E h \in DOMAIN pptx_file.shapes[s] :
          /\ \A i \in 1..Len(json_file) : json_file[i][1] # s
          /\ pptx_file.shapes[s][h].paragraphs # <<"">>
          /\ frames[s][h] = ClearedFrame

\* C6: once apply_replacements has returned or raised, the temporary .pptx it
\* created no longer exists.
C6_TempFileRemoved ==
    (pc \in {"done", "raised"} /\ tmp # "none") => tmp = "deleted"

\* apply_replacements is not running
ReplaceIdle ==
    /\ pc = "idle"
    /\ pptx_file = Pptx1
    /\ json_file = << >>
    /\ inventory = << >>
    /\ original_overflow = << >>
    /\ replacements = << >>
    /\ errors = << >>
    /\ frames = LoadedFrames(Pptx1)
    /\ counts = [processed |-> 0, cleared |-> 0, replaced |-> 0]
    /\ tmp = "none"
    /\ updated_inventory = << >>
    /\ updated_overflow = << >>
    /\ overflow_errors = << >>
    /\ warnings = << >>
    /\ output_written = FALSE
    /\ raised_at = ""
    /\ log = << >>

-----------------------------------------------------------------------------
(* docx.py: DOCXSchemaValidator.validate *)

\* most paragraphs counted in the original or in the modified document.xml
MaxParagraphs == 2

\* the checks 1-9 in the order validate() runs them
ChecksInOrder ==
    <<"validate_namespaces", "validate_unique_ids", "validate_file_references",
      "validate_content_types", "validate_against_xsd",
      "validate_whitespace_preservation", "validate_deletions",
      "validate_insertions", "validate_all_relationship_ids">>

\* lines 269-270: f"+{diff}" if diff > 0 else str(diff)
DiffStr(diff) == [plus |-> diff > 0, value |-> diff]

\* "if not self.<check>(): all_valid = False" for one of the checks 1-9
Check(name, to) ==
    /\ \E ok \in BOOLEAN :
          /\ outcomes' = Append(outcomes, ok)
          /\ all_valid' = IF ok THEN all_valid ELSE <<FALSE>>
    /\ calls' = Append(calls, name)
    /\ vpc' = to
    /\ UNCHANGED <<returned, printed>>
    /\ UNCHANGED notDocxVars

\* mutant: the result of the check is dropped
CheckIgnored(name, to) ==
    /\ \E ok \in BOOLEAN : outcomes' = Append(outcomes, ok)
    /\ calls' = Append(calls, name)
    /\ vpc' = to
    /\ UNCHANGED <<all_valid, returned, printed>>
    /\ UNCHANGED notDocxVars

\* mutant: a failing test 0 does not end validate()
validate_xml_NoShortCircuit ==
    /\ vpc = "test0"
    /\ \E ok \in BOOLEAN :
          /\ outcomes' = Append(outcomes, ok)
          /\ all_valid' = <<ok>>
    /\ calls' = Append(calls, "validate_xml")
    /\ vpc' = "test1"
    /\ UNCHANGED <<returned, printed>>
    /\ UNCHANGED notDocxVars

\* lines 26-31: test 0, XML well-formedness; failure returns False at once
validate_xml ==
    /\ vpc = "test0"
    /\ \E ok \in BOOLEAN :
          /\ outcomes' = Append(outcomes, ok)
          /\ IF ok
             THEN /\ all_valid' = <<TRUE>>
                  /\ vpc' = "test1"
                  /\ returned' = returned
             ELSE /\ all_valid' = all_valid
                  /\ vpc' = "returned"
                  /\ returned' = <<FALSE>>
    /\ calls' = Append(calls, "validate_xml")
    /\ UNCHANGED printed
    /\ UNCHANGED notDocxVars

\* lines 32-33
validate_namespaces ==
    /\ vpc = "test1"
    /\ Check("validate_namespaces", "test2")

\* lines 36-37
validate_unique_ids ==
    /\ vpc = "test2"
    /\ Check("validate_unique_ids", "test3")

\* lines 40-41
validate_file_references ==
    /\ vpc = "test3"
    /\ Check("validate_file_references", "test4")

\* lines 44-45
validate_content_types ==
    /\ vpc = "test4"
    /\ Check("validate_content_types", "test5")

\* lines 48-49
validate_against_xsd ==
    /\ vpc = "test5"
    /\ Check("validate_against_xsd", "test6")

\* lines 52-53
validate_whitespace_preservation ==
    /\ vpc = "test6"
    /\ Check("validate_whitespace_preservation", "test7")

\* mutant: the result of validate_deletions does not reach all_valid
validate_deletions_Ignored ==
    /\ vpc = "test7"
    /\ CheckIgnored("validate_deletions", "test8")

\* lines 56-57
validate_deletions ==
    /\ vpc = "test7"
    /\ Check("validate_deletions", "test8")

\* lines 60-61
validate_insertions ==
    /\ vpc = "test8"
    /\ Check("validate_insertions", "test9")

\* lines 64-65
validate_all_relationship_ids ==
    /\ vpc = "test9"
    /\ Check("validate_all_relationship_ids", "compare")

\* mutant: the comparison is printed only for a document that passed the checks
compare_paragraph_counts_OnlyWhenValid ==
    /\ vpc = "compare"
    /\ IF all_valid = <<TRUE>>
       THEN /\ \E original_count \in 0..MaxParagraphs, new_count \in 0..MaxParagraphs :
                  printed' = << [original |-> original_count, new |-> new_count,
                                 diff_str |-> DiffStr(new_count - original_count)] >>
            /\ calls' = Append(calls, "compare_paragraph_counts")
       ELSE UNCHANGED <<printed, calls>>
    /\ vpc' = "return"
    /\ UNCHANGED <<outcomes, all_valid, returned>>
    /\ UNCHANGED notDocxVars

\* lines 68, 263-270: count the paragraphs of both documents (0 when a count
\* fails) and print the comparison
compare_paragraph_counts ==
    /\ vpc = "compare"
    /\ \E original_count \in 0..MaxParagraphs, new_count \in 0..MaxParagraphs :
          printed' = << [original |-> original_count, new |-> new_count,
                         diff_str |-> DiffStr(new_count - original_count)] >>
    /\ calls' = Append(calls, "compare_paragraph_counts")
    /\ vpc' = "return"
    /\ UNCHANGED <<outcomes, all_valid, returned>>
    /\ UNCHANGED notDocxVars

\* line 70: return all_valid
Return ==
    /\ vpc = "return"
    /\ returned' = all_valid
    /\ vpc' = "returned"
    /\ UNCHANGED <<calls, outcomes, all_valid, printed>>
    /\ UNCHANGED notDocxVars

DocxInit ==
    /\ vpc = "test0"
    /\ calls = << >>
    /\ outcomes = << >>
    /\ all_valid = << >>
    /\ returned = << >>
    /\ printed = << >>

\* validate() is not running
DocxIdle ==
    /\ vpc = "idle"
    /\ calls = << >>
    /\ outcomes = << >>
    /\ all_valid = << >>
    /\ returned = << >>
    /\ printed = << >>

DocxNext ==
    \/ validate_xml
    \/ validate_namespaces
    \/ validate_unique_ids
    \/ validate_file_references
    \/ validate_content_types
    \/ validate_against_xsd
    \/ validate_whitespace_preservation
    \/ validate_deletions
    \/ validate_insertions
    \/ validate_all_relationship_ids
    \/ compare_paragraph_counts
    \/ Return

-----------------------------------------------------------------------------
(* Properties of DOCXSchemaValidator.validate *)

Called(name) == {i \in 1..Len(calls) : calls[i] = name}

\* C7: when test 0 fails, validate() returns False at once: none of the checks
\* 1-9 is invoked and nothing but validate_xml has run.
C7_Test0ShortCircuits ==
    (Len(outcomes) > 0 /\ ~outcomes[1]) =>
        /\ vpc = "returned"
        /\ returned = <<FALSE>>
        /\ calls = <<"validate_xml">>
        /\ \A i \in 1..Len(ChecksInOrder) : Called(ChecksInOrder[i]) = {}

C7_Witness ==
    /\ vpc = "returned"
    /\ outcomes = <<FALSE>>
    /\ returned = <<FALSE>>

\* C8: when test 0 passes, the checks 1-9 are invoked once each in the fixed
\* order whatever the earlier checks returned, and validate() returns True
\* exactly when all nine returned True, whatever the paragraph counts are.
C8_AllChecksRunInOrder ==
    (Len(outcomes) > 0 /\ outcomes[1]) =>
        /\ \A i \in 1..Len(calls) :
              calls[i] = (<<"validate_xml">> \o ChecksInOrder
                             \o <<"compare_paragraph_counts">>)[i]
        /\ vpc = "returned" =>
              /\ Len(calls) = Len(ChecksInOrder) + 2
              /\ \A i \in 1..Len(ChecksInOrder) :
                    Cardinality(Called(ChecksInOrder[i])) = 1
              /\ returned = << \A i \in 2..Len(ChecksInOrder) + 1 : outcomes[i] >>

\* namespaces and deletions failed, the later checks ran all the same
C8_Witness ==
    /\ vpc = "returned"
    /\ Len(outcomes) = Len(ChecksInOrder) + 1
    /\ outcomes[1]
    /\ ~outcomes[2]
    /\ ~outcomes[8]
    /\ outcomes[10]
    /\ returned = <<FALSE>>
    /\ printed # << >>
    /\ printed[1].diff_str.plus

\* C9 as stated: every call of validate() runs compare_paragraph_counts.
C9_CompareOnEveryPath ==
    vpc = "returned" => Called("compare_paragraph_counts") # {}

\* C9 as amended: compare_paragraph_counts runs exactly once, and prints its
\* line, on every path on which test 0 passed, whatever the checks 1-9
\* returned; it does not run when test 0 failed.
C9_CompareWheneverTest0Passes ==
    vpc = "returned" =>
        /\ Cardinality(Called("compare_paragraph_counts")) = (IF outcomes[1] THEN 1 ELSE 0)
        /\ Len(printed) = (IF outcomes[1] THEN 1 ELSE 0)

\* every check 1-9 failed and the comparison was still printed
C9_Witness ==
    /\ vpc = "returned"
    /\ Len(outcomes) = Len(ChecksInOrder) + 1
    /\ outcomes[1]
    /\ \A i \in 2..Len(outcomes) : ~outcomes[i]
    /\ Len(printed) = 1

-----------------------------------------------------------------------------
(* docx.py: DOCXSchemaValidator.validate_whitespace_preservation *)

\* longest text of a w:t element
WsMaxTextLen == 3

\* most w:t elements in document.xml
WsMaxElems == 2

\* characters of a text: a letter, a blank, a line feed
Chars == {"a", "SP", "LF"}

\* the regular expression class \s
IsWhitespace(c) == c \in {"SP", "LF"}

WsTexts == UNION {[1..n -> Chars] : n \in 0..WsMaxTextLen}

\* a w:t element: its text and its xml:space attribute
WsElements == [text : WsTexts, space : {"absent", "preserve", "default"}]

\* the bounded packages: document.xml (parsing or not) and one other member
WsDocuments ==
    {[name |-> "document.xml", parses |-> TRUE, elems |-> e] :
        e \in UNION {[1..n -> WsElements] : n \in 0..WsMaxElems}}
    \cup {[name |-> "document.xml", parses |-> FALSE, elems |-> << >>]}

WsOtherMembers ==
    {[name |-> "styles.xml", parses |-> TRUE, elems |-> e] :
        e \in { << >>, << [text |-> <<"SP", "a">>, space |-> "absent"] >> }}

\* re.match(r"^\s.*", text): "." stops at a line feed, the match need not reach the end
MatchLeading(text) == Len(text) > 0 /\ IsWhitespace(text[1])

\* re.match(r".*\s$", text): ".*" cannot cross a line feed; "$" matches at the end
\* of the text or before a line feed that ends it
MatchTrailing(text) ==
    \E i \in 1..Len(text) :
        /\ \A j \in 1..(i - 1) : text[j] # "LF"
        /\ IsWhitespace(text[i])
        /\ \/ i = Len(text)
           \/ i = Len(text) - 1 /\ text[Len(text)] = "LF"

\* lines 83-112: the errors of one member named document.xml
WsFileErrors(file) ==
    IF ~file.parses
    THEN << [file |-> file.name, line |-> 0, kind |-> "error", text |-> << >>] >>
    ELSE LET all == [i \in 1..Len(file.elems) |->
                        [file |-> file.name, line |-> i, kind |-> "whitespace",
                         text |-> file.elems[i].text]]
         IN  SelectSeq(all, LAMBDA e :
                /\ Len(file.elems[e.line].text) > 0
                /\ MatchLeading(file.elems[e.line].text)
                      \/ MatchTrailing(file.elems[e.line].text)
                /\ file.elems[e.line].space # "preserve")

\* lines 76-112: the loop over self.xml_files
WsErrors(files) ==
    Flatten([i \in 1..Len(files) |->
                IF files[i].name # "document.xml" THEN << >> ELSE WsFileErrors(files[i])])

\* lines 72-122
ValidateWhitespace ==
    /\ wpc = "call"
    /\ ws_errors' = WsErrors(xml_files)
    /\ ws_return' = << Len(ws_errors') = 0 >>
    /\ wpc' = "returned"
    /\ UNCHANGED xml_files
    /\ UNCHANGED notWsVars

WsInit ==
    /\ wpc = "call"
    /\ xml_files \in {<<o, d>> : o \in WsOtherMembers, d \in WsDocuments}
    /\ ws_errors = << >>
    /\ ws_return = << >>

\* validate_whitespace_preservation is not running
WsIdle ==
    /\ wpc = "idle"
    /\ xml_files = << >>
    /\ ws_errors = << >>
    /\ ws_return = << >>

WsNext == ValidateWhitespace

-----------------------------------------------------------------------------
(* Properties of validate_whitespace_preservation *)

\* the w:t elements of a parsed member that the rule is about: non-empty text
\* that begins or ends with whitespace, xml:space missing or not "preserve"
WsOffending(file) ==
    {i \in 1..Len(file.elems) :
        /\ Len(file.elems[i].text) > 0
        /\ \/ IsWhitespace(file.elems[i].text[1])
           \/ IsWhitespace(file.elems[i].text[Len(file.elems[i].text)])
        /\ file.elems[i].space # "preserve"}

\* C10: validate_whitespace_preservation reports exactly the offending w:t
\* elements of document.xml, whatever their text (line breaks included), reports
\* nothing for any other element or member, and returns False exactly when it
\* reported something.
C10_WhitespaceViolationsReported ==
    wpc = "returned" =>
        \A f \in 1..Len(xml_files) :
            LET file == xml_files[f]
                reported == {ws_errors[n].line : n \in {m \in 1..Len(ws_errors) :
                                ws_errors[m].file = file.name
                                /\ ws_errors[m].kind = "whitespace"}}
            IN  /\ file.name # "document.xml" => reported = {}
                /\ (file.name = "document.xml" /\ file.parses) =>
                      /\ reported = WsOffending(file)
                      /\ ws_return = << WsOffending(file) = {} >>

-----------------------------------------------------------------------------
(* DOCXSchemaValidator.validate_deletions (docx.py lines 124-171) *)

DelMaxElems == 3

\* line 149-150: the preview keeps the first 50 characters of repr(text)
PreviewLen == 50

\* the ancestors of a w:t element, from the child of the root down to its parent
DelPaths ==
    { <<"w:p", "w:r">>,
      <<"w:p", "w:del", "w:r">>,
      <<"w:p", "w:ins", "w:del", "w:r">>,
      <<"w:p", "w:del", "w:sdt", "w:del", "w:r">> }

\* t_elem.text: empty (lxml gives None), short, and longer than the preview
DelTexts == { << >>, <<"a">>, [i \in 1..(PreviewLen - 1) |-> "a"] }

\* a w:t element of a member: where it sits and its text
DelElements == [path : DelPaths, text : DelTexts]

DelDocuments ==
    {[name |-> "document.xml", parses |-> TRUE, elems |-> e] :
        e \in UNION {[1..n -> DelElements] : n \in 0..DelMaxElems}}
    \cup {[name |-> "document.xml", parses |-> FALSE, elems |-> << >>]}

DelOtherMembers ==
    {[name |-> "footnotes.xml", parses |-> TRUE, elems |-> e] :
        e \in { << >>, << [path |-> <<"w:p", "w:del", "w:r">>, text |-> <<"a">>] >> }}

\* the XPath .//w:del//w:t selects a w:t that has a w:del among its ancestors
MatchesDelT(elem) == \E i \in 1..Len(elem.path) : elem.path[i] = "w:del"

\* repr(t_elem.text): the text between quotes
Repr(text) == <<"'">> \o text \o <<"'">>

\* lines 148-152
TextPreview(text) ==
    IF Len(Repr(text)) > PreviewLen
    THEN SubSeq(Repr(text), 1, PreviewLen) \o <<"...">>
    ELSE Repr(text)

\* lines 136-161: the errors of one member named document.xml
DelFileErrors(file) ==
    IF ~file.parses
    THEN << [file |-> file.name, line |-> 0, kind |-> "error", preview |-> << >>] >>
    ELSE LET all == [i \in 1..Len(file.elems) |->
                        [file |-> file.name, line |-> i, kind |-> "w:t in w:del",
                         preview |-> TextPreview(file.elems[i].text)]]
         IN  SelectSeq(all, LAMBDA e :
                /\ MatchesDelT(file.elems[e.line])
                /\ Len(file.elems[e.line].text) > 0)

\* lines 131-161: the loop over self.xml_files
DelErrors(files) ==
    Flatten([i \in 1..Len(files) |->
                IF files[i].name # "document.xml" THEN << >> ELSE DelFileErrors(files[i])])

\* lines 124-171
ValidateDeletions ==
    /\ dpc = "call"
    /\ del_errors' = DelErrors(del_files)
    /\ del_return' = << Len(del_errors') = 0 >>
    /\ dpc' = "returned"
    /\ UNCHANGED del_files
    /\ UNCHANGED notDelVars

DelInit ==
    /\ dpc = "call"
    /\ del_files \in {<<o, d>> : o \in DelOtherMembers, d \in DelDocuments}
    /\ del_errors = << >>
    /\ del_return = << >>

\* validate_deletions is not running
DelIdle ==
    /\ dpc = "idle"
    /\ del_files = << >>
    /\ del_errors = << >>
    /\ del_return = << >>

DelNext == ValidateDeletions

-----------------------------------------------------------------------------
(* Properties of validate_deletions *)

\* the w:t elements of a parsed member that lie beneath a w:del at any depth
DelNested(file) ==
    {i \in 1..Len(file.elems) :
        \E d \in 1..Len(file.elems[i].path) : file.elems[i].path[d] = "w:del"}

\* C11: validate_deletions reports every w:t of document.xml that lies beneath a
\* w:del at any depth exactly once, whatever its text (empty text included), and
\* returns True exactly when document.xml parses and has no such element.
C11_EveryNestedTextRunReported ==
    dpc = "returned" =>
        \A f \in 1..Len(del_files) :
            LET file == del_files[f]
                reports == {m \in 1..Len(del_errors) :
                              del_errors[m].file = file.name
                              /\ del_errors[m].kind = "w:t in w:del"}
            IN  file.name = "document.xml" =>
                  /\ file.parses =>
                        /\ {del_errors[m].line : m \in reports} = DelNested(file)
                        /\ Cardinality(reports) = Cardinality(DelNested(file))
                  /\ del_return = << file.parses /\ DelNested(file) = {} >>

-----------------------------------------------------------------------------
(* make_field_dict (extract_form_field_info.py lines 22-50) *)
(*                                                                         *)
(* A field id is a sequence of characters ("." is the separator that       *)
(* get_full_annotation_field_id joins with).  A descriptor is a record;    *)
(* a key the dict does not have is << >>, a key it has is <<value>>.       *)

MaxStates == 3

\* the names a button field declares in /_States_
StateNames == {"/Off", "/Yes", "/1"}

\* the <<value, text>> pairs a choice field declares in /_States_
ChoiceStates == { << >>, << <<"v1", "One">> >>, << <<"v1", "One">>, <<"v2", "Two">> >> }

\* a field of reader.get_fields(): /FT ("" when absent), /Kids, /_States_
\* (States for a button field, Opts for a choice field)
Field(ft, kids, states, opts) ==
    [FT |-> ft, Kids |-> kids, States |-> states, Opts |-> opts]

ButtonFields(b) ==
    {Field("/Btn", FALSE, st, << >>) : st \in UNION {[1..n -> StateNames] : n \in 0..b}}

OtherFields ==
    {Field("/Tx", FALSE, << >>, << >>), Field("/Sig", FALSE, << >>, << >>),
     Field("", FALSE, << >>, << >>)}
    \cup {Field("/Ch", FALSE, << >>, o) : o \in ChoiceStates}

FieldIds == { <<"a">>, <<"b", ".", "k">>, <<"c">> }

\* a descriptor with only field_id and type
Descriptor(id, type) ==
    [field_id |-> id, type |-> type, checked_value |-> << >>,
     unchecked_value |-> << >>, choice_options |-> << >>,
     page |-> << >>, rect |-> << >>, radio_options |-> << >>]

\* lines 30 and 34: the two-state list contains "/Off"
HasOff(states) == \E i \in 1..Len(states) : states[i] = "/Off"

\* lines 35-36
make_field_dict_PositionalChecked(field, id) ==
    IF field.FT = "/Tx" THEN Descriptor(id, <<"text">>)
    ELSE IF field.FT = "/Btn" THEN
        IF Len(field.States) = 2
        THEN [Descriptor(id, <<"checkbox">>) EXCEPT
                 !.checked_value = <<field.States[1]>>,
                 !.unchecked_value = IF HasOff(field.States)
                                     THEN <<"/Off">> ELSE <<field.States[2]>>]
        ELSE Descriptor(id, <<"checkbox">>)
    ELSE IF field.FT = "/Ch" THEN
        [Descriptor(id, <<"choice">>) EXCEPT
            !.choice_options = << [i \in 1..Len(field.Opts) |->
                                     [value |-> field.Opts[i][1],
                                      text |-> field.Opts[i][2]]] >>]
    ELSE Descriptor(id, <<"unknown (", field.FT, ")">>)

\* lines 22-50: the dict make_field_dict returns
make_field_dict(field, id) ==
    IF field.FT = "/Tx" THEN Descriptor(id, <<"text">>)
    ELSE IF field.FT = "/Btn" THEN
        IF Len(field.States) = 2
        THEN IF HasOff(field.States)
             THEN [Descriptor(id, <<"checkbox">>) EXCEPT
                      !.checked_value = IF field.States[1] # "/Off"
                                        THEN <<field.States[1]>>
                                        ELSE <<field.States[2]>>,
                      !.unchecked_value = <<"/Off">>]
             ELSE [Descriptor(id, <<"checkbox">>) EXCEPT
                      !.checked_value = <<field.States[1]>>,
                      !.unchecked_value = <<field.States[2]>>]
        ELSE Descriptor(id, <<"checkbox">>)
    ELSE IF field.FT = "/Ch" THEN
        [Descriptor(id, <<"choice">>) EXCEPT
            !.choice_options = << [i \in 1..Len(field.Opts) |->
                                     [value |-> field.Opts[i][1],
                                      text |-> field.Opts[i][2]]] >>]
    ELSE Descriptor(id, <<"unknown (", field.FT, ")">>)

\* line 38: the warning make_field_dict prints
make_field_dict_prints(field, id) ==
    IF field.FT = "/Btn" /\ Len(field.States) = 2 /\ ~HasOff(field.States)
    THEN << [line |-> "unexpected checkbox states", id |-> id] >>
    ELSE << >>

\* lines 22-50
MakeFieldDict ==
    /\ mpc = "call"
    /\ field_dict' = << make_field_dict(mfd_field, mfd_field_id) >>
    /\ mfd_printed' = make_field_dict_prints(mfd_field, mfd_field_id)
    /\ mpc' = "returned"
    /\ UNCHANGED <<mfd_field, mfd_field_id>>
    /\ UNCHANGED notMfdVars

MfdInit ==
    /\ mpc = "call"
    /\ mfd_field \in ButtonFields(MaxStates) \cup OtherFields
    /\ mfd_field_id \in FieldIds
    /\ field_dict = << >>
    /\ mfd_printed = << >>

\* make_field_dict is not running
MfdIdle ==
    /\ mpc = "idle"
    /\ mfd_field = << >>
    /\ mfd_field_id = << >>
    /\ field_dict = << >>
    /\ mfd_printed = << >>

MfdNext == MakeFieldDict

-----------------------------------------------------------------------------
(* Properties of make_field_dict *)

\* a button field whose state list has exactly two entries, one of them "/Off"
IsRegularCheckbox(field) ==
    /\ field.FT = "/Btn"
    /\ Len(field.States) = 2
    /\ \E i \in 1..2 : field.States[i] = "/Off"

\* C13: for a button field with exactly two states one of which is "/Off",
\* make_field_dict gives unchecked_value "/Off" and checked_value the other
\* entry, whichever position "/Off" occupies.
C13_CheckedIsTheOtherState ==
    (mpc = "returned" /\ IsRegularCheckbox(mfd_field)) =>
        /\ field_dict[1].unchecked_value = <<"/Off">>
        /\ \E i \in 1..2 :
              /\ mfd_field.States[i] = "/Off"
              /\ field_dict[1].checked_value = <<mfd_field.States[3 - i]>>
        /\ mfd_field.States = <<"/Yes", "/Off">> => field_dict[1].checked_value = <<"/Yes">>
        /\ mfd_field.States = <<"/Off", "/1">> => field_dict[1].checked_value = <<"/1">>

\* "/Off" second and "/Off" first have both been converted
C13_Witness ==
    /\ mpc = "returned"
    /\ mfd_field.FT = "/Btn"
    /\ mfd_field.States = <<"/Off", "/1">>
    /\ field_dict[1].checked_value = <<"/1">>
    /\ field_dict[1].unchecked_value = <<"/Off">>

\* C14: for a button field whose state list is not "two states, one of them
\* /Off", make_field_dict gives the first state as checked_value and the second
\* as unchecked_value and prints a warning.
C14_IrregularStatesFallBack ==
    (mpc = "returned" /\ mfd_field.FT = "/Btn" /\ ~IsRegularCheckbox(mfd_field)) =>
        /\ Len(mfd_field.States) >= 2
        /\ field_dict[1].checked_value = <<mfd_field.States[1]>>
        /\ field_dict[1].unchecked_value = <<mfd_field.States[2]>>
        /\ Len(mfd_printed) = 1

-----------------------------------------------------------------------------
(* get_field_info (extract_form_field_info.py lines 12-19 and 62-135) *)
(*                                                                         *)
(* An annotation is its chain of /T names (its own first, then each        *)
(* /Parent's; << >> where an object has no /T), its /Rect (<< >> when      *)
(* absent) and its /AP entry.  A rect is <<x0, y0, x1, y1>>.               *)

GfiMaxAnnots == 3

IdA == <<"a">>

IdB == <<"b", ".", "k">>

IdC == <<"c">>

\* the results of reader.get_fields(): field id -> field, in dict order
GfiFieldDicts ==
    { << <<IdA, Field("/Tx", FALSE, << >>, << >>)>>,
         <<IdB, Field("/Tx", FALSE, << >>, << >>)>>,
         <<IdC, Field("/Tx", FALSE, << >>, << >>)>> >>,
      << <<IdA, Field("/Btn", FALSE, <<"/Yes", "/Off">>, << >>)>>,
         <<IdB, Field("/Btn", TRUE, << >>, << >>)>>,
         <<IdC, Field("/Btn", TRUE, << >>, << >>)>> >>,
      << <<IdA, Field("/Btn", TRUE, << >>, << >>)>>,
         <<IdB, Field("/Btn", FALSE, <<"/Yes", "/1">>, << >>)>>,
         <<IdC, Field("", TRUE, << >>, << >>)>> >> }

RectTop == <<0, 700, 100, 720>>

RectBottom == <<0, 100, 100, 120>>

RectTopRight == <<50, 700, 150, 720>>

\* ann["/AP"]: absent, present without /N, or present with the keys of /N
NoAP == [kind |-> "absent", N |-> << >>]

APWithoutN == [kind |-> "noN", N |-> << >>]

APWithN(states) == [kind |-> "N", N |-> states]

Annotation(chain, rect, ap) == [chain |-> chain, Rect |-> rect, AP |-> ap]

\* the annotations a page may carry
GfiAnnotations ==
    { Annotation(<< <<"a">> >>, RectTop, APWithoutN),
      Annotation(<< <<"k">>, <<"b">> >>, RectBottom, APWithN(<<"/Off", "/A">>)),
      Annotation(<< << >>, <<"c">> >>, RectTopRight, APWithN(<<"/B", "/Off">>)),
      Annotation(<< << >>, <<"c">> >>, RectBottom, APWithN(<<"/A", "/Off">>)),
      Annotation(<< << >>, <<"c">> >>, << >>, APWithN(<<"/Off", "/A">>)),
      Annotation(<< << >>, <<"c">> >>, RectTop, NoAP),
      Annotation(<< <<"k">>, <<"b">> >>, RectTopRight, APWithN(<<"/Off">>)),
      Annotation(<< << >>, <<"c">> >>, RectBottom, APWithN(<<"/A", "/B">>)),
      Annotation(<< << >> >>, RectBottom, NoAP) }

\* two pages: the first k annotations on page 1, the others on page 2
GfiPages(b) ==
    UNION {{ <<SubSeq(as, 1, k), SubSeq(as, k + 1, Len(as))>> : k \in 0..Len(as) } :
              as \in UNION {[1..n -> GfiAnnotations] : n \in 0..b}}

Reverse(s) == [i \in 1..Len(s) |-> s[Len(s) + 1 - i]]

\* ".".join(components)
RECURSIVE JoinDot(_)
JoinDot(components) ==
    IF Len(components) = 0 THEN << >>
    ELSE IF Len(components) = 1 THEN components[1]
    ELSE components[1] \o <<".">> \o JoinDot(Tail(components))

\* lines 12-19: None is << >>
get_full_annotation_field_id(annotation) ==
    LET components == SelectSeq(annotation.chain, LAMBDA name : Len(name) > 0)
    IN  JoinDot(Reverse(components))

\* lines 66-73
PossibleRadioNames(fields) ==
    {fields[i][1] : i \in {j \in 1..Len(fields) :
                              fields[j][2].Kids /\ fields[j][2].FT = "/Btn"}}

\* lines 65-74: field_info_by_id after the first loop
FieldInfoById(fields) ==
    LET kept == SelectSeq(fields, LAMBDA item : ~item[2].Kids)
    IN  [i \in 1..Len(kept) |-> <<kept[i][1], make_field_dict(kept[i][2], kept[i][1])>>]

\* line 74: what the calls of make_field_dict print
FieldInfoPrints(fields) ==
    LET kept == SelectSeq(fields, LAMBDA item : ~item[2].Kids)
    IN  Flatten([i \in 1..Len(kept) |-> make_field_dict_prints(kept[i][2], kept[i][1])])

\* d[k] = v adding an entry even when the key is there
Put_AlwaysAppend(d, k, v) == Append(d, <<k, v>>)

\* d[k] = v
Put(d, k, v) ==
    IF HasKey(d, k)
    THEN [i \in 1..Len(d) |-> IF d[i][1] = k THEN <<k, v>> ELSE d[i]]
    ELSE Append(d, <<k, v>>)

\* the annotations with their 1-based page number, in page and annotation order
PageAnnotations(pages) ==
    Flatten([p \in 1..Len(pages) |->
                [a \in 1..Len(pages[p]) |-> [page |-> p, ann |-> pages[p][a]]]])

\* line 94
OnValues(ann) == SelectSeq(ann.AP.N, LAMBDA v : v # "/Off")

\* lines 85-112 with `len(on_values) >= 1` at line 97
AnnotationStep_AnyOnValue(st, names, item) ==
    LET id == get_full_annotation_field_id(item.ann)
    IN  IF HasKey(st.info, id)
        THEN [st EXCEPT !.info = Put(st.info, id,
                 [Get(st.info, id, << >>) EXCEPT !.page = <<item.page>>,
                                                 !.rect = item.ann.Rect])]
        ELSE IF id \in names /\ item.ann.AP.kind = "N" /\ Len(OnValues(item.ann)) >= 1
        THEN LET group == Get(st.radio, id,
                              [Descriptor(id, <<"radio_group">>) EXCEPT
                                  !.page = <<item.page>>, !.radio_options = << << >> >>])
                 option == [value |-> OnValues(item.ann)[1], rect |-> item.ann.Rect]
             IN  [st EXCEPT !.radio = Put(st.radio, id,
                     [group EXCEPT !.radio_options = <<Append(group.radio_options[1], option)>>])]
        ELSE st

\* lines 85-112: one annotation of one page; st is field_info_by_id and
\* radio_fields_by_id, names is possible_radio_names
AnnotationStep(st, names, item) ==
    LET id == get_full_annotation_field_id(item.ann)
    IN  IF HasKey(st.info, id)
        THEN [st EXCEPT !.info = Put(st.info, id,
                 [Get(st.info, id, << >>) EXCEPT !.page = <<item.page>>,
                                                 !.rect = item.ann.Rect])]
        ELSE IF id \in names /\ item.ann.AP.kind = "N" /\ Len(OnValues(item.ann)) = 1
        THEN LET group == Get(st.radio, id,
                              [Descriptor(id, <<"radio_group">>) EXCEPT
                                  !.page = <<item.page>>, !.radio_options = << << >> >>])
                 option == [value |-> OnValues(item.ann)[1], rect |-> item.ann.Rect]
             IN  [st EXCEPT !.radio = Put(st.radio, id,
                     [group EXCEPT !.radio_options = <<Append(group.radio_options[1], option)>>])]
        ELSE st

\* lines 83-112: the loop over the pages and their annotations
RECURSIVE Locate(_, _, _)
Locate(st, names, items) ==
    IF Len(items) = 0 THEN st
    ELSE Locate(AnnotationStep(st, names, Head(items)), names, Tail(items))

\* dict.values()
Values(d) == [i \in 1..Len(d) |-> d[i][2]]

\* `rect or [0, 0, 0, 0]`
RectOrZero(rect) == IF Len(rect) = 0 THEN <<0, 0, 0, 0>> ELSE rect

\* lines 124-130 without the minus sign of line 129
sort_key_AscendingY(f) ==
    LET rect == IF Len(f.radio_options) > 0
                THEN RectOrZero(f.radio_options[1][1].rect)
                ELSE RectOrZero(f.rect)
    IN  <<f.page[1], rect[2], rect[1]>>

\* lines 124-130: [page, [-rect[1], rect[0]]] as a triple
sort_key(f) ==
    LET rect == IF Len(f.radio_options) > 0
                THEN RectOrZero(f.radio_options[1][1].rect)
                ELSE RectOrZero(f.rect)
    IN  <<f.page[1], 0 - rect[2], rect[1]>>

\* list comparison k1 < k2
KeyLess(k1, k2) ==
    \/ k1[1] < k2[1]
    \/ k1[1] = k2[1] /\ k1[2] < k2[2]
    \/ k1[1] = k2[1] /\ k1[2] = k2[2] /\ k1[3] < k2[3]

\* f placed behind every element whose key is not greater (list.sort is stable)
InsertByKey(sorted, f) ==
    LET n == Cardinality({i \in 1..Len(sorted) : ~KeyLess(sort_key(f), sort_key(sorted[i]))})
    IN  SubSeq(sorted, 1, n) \o <<f>> \o SubSeq(sorted, n + 1, Len(sorted))

\* line 133: sorted_fields.sort(key=sort_key)
RECURSIVE SortFields(_)
SortFields(fs) ==
    IF Len(fs) = 0 THEN << >>
    ELSE InsertByKey(SortFields(SubSeq(fs, 1, Len(fs) - 1)), fs[Len(fs)])

\* lines 63-112: both dicts when the annotation loop has finished
Located(rd) ==
    Locate([info |-> FieldInfoById(rd.fields), radio |-> << >>],
           PossibleRadioNames(rd.fields), PageAnnotations(rd.pages))

\* lines 116-135: the returned list
get_field_info(rd) ==
    LET st == Located(rd)
        fields_with_location == SelectSeq(Values(st.info), LAMBDA f : Len(f.page) > 0)
    IN  SortFields(fields_with_location \o Values(st.radio))

\* lines 117-121: the fields reported as having no location
Unlocated(rd) ==
    LET ignored == SelectSeq(Values(Located(rd).info), LAMBDA f : Len(f.page) = 0)
    IN  [i \in 1..Len(ignored) |-> [line |-> "no location, ignored", id |-> ignored[i].field_id]]

\* lines 62-135
GetFieldInfo ==
    /\ gpc = "call"
    /\ sorted_fields' = get_field_info(reader)
    /\ gfi_printed' = FieldInfoPrints(reader.fields) \o Unlocated(reader)
    /\ gpc' = "returned"
    /\ UNCHANGED reader
    /\ UNCHANGED notGfiVars

GfiInit ==
    /\ gpc = "call"
    /\ reader \in [fields : GfiFieldDicts, pages : GfiPages(GfiMaxAnnots)]
    /\ sorted_fields = << >>
    /\ gfi_printed = << >>

\* get_field_info is not running
GfiIdle ==
    /\ gpc = "idle"
    /\ reader = << >>
    /\ sorted_fields = << >>
    /\ gfi_printed = << >>

GfiNext == GetFieldInfo

-----------------------------------------------------------------------------
(* Properties of get_field_info *)

\* the rect a descriptor is positioned by: its own, or its first option's
PositionRect(f) ==
    IF f.type = <<"radio_group">> THEN f.radio_options[1][1].rect ELSE f.rect

\* a before b: page ascending, then rect[1] descending, then rect[0] ascending
InReadingOrder(a, b) ==
    \/ a.page[1] < b.page[1]
    \/ /\ a.page[1] = b.page[1]
       /\ PositionRect(a)[2] > PositionRect(b)[2]
    \/ /\ a.page[1] = b.page[1]
       /\ PositionRect(a)[2] = PositionRect(b)[2]
       /\ PositionRect(a)[1] <= PositionRect(b)[1]

\* C12: the returned list is ordered by page ascending, then rect[1] descending,
\* then rect[0] ascending, ordinary fields by their own rect and radio groups by
\* the rect of their first option; three page-1 fields at (0,700), (0,100) and
\* (50,700) come out as (0,700), (50,700), (0,100).
C12_SortedByPageThenPosition ==
    gpc = "returned" =>
        /\ \A i, j \in 1..Len(sorted_fields) :
              (/\ i < j
               /\ Len(PositionRect(sorted_fields[i])) > 0
               /\ Len(PositionRect(sorted_fields[j])) > 0)
              => InReadingOrder(sorted_fields[i], sorted_fields[j])
        /\ (/\ Len(sorted_fields) = 3
            /\ \A i \in 1..3 : sorted_fields[i].page = <<1>>
            /\ {PositionRect(sorted_fields[i]) : i \in 1..3}
                  = {RectTop, RectBottom, RectTopRight})
           => [i \in 1..3 |-> PositionRect(sorted_fields[i])]
                  = <<RectTop, RectTopRight, RectBottom>>

\* three text fields met on page 1 at (0,700), (0,100), (50,700) in that order,
\* and a radio group placed by its first option
C12_Witness ==
    /\ gpc = "returned"
    /\ [i \in 1..Len(reader.pages[1]) |-> reader.pages[1][i].Rect]
          = <<RectTop, RectBottom, RectTopRight>>
    /\ Len(sorted_fields) = 3
    /\ \A i \in 1..3 : sorted_fields[i].type = <<"text">>
    /\ [i \in 1..3 |-> sorted_fields[i].rect] = <<RectTop, RectTopRight, RectBottom>>

\* the non-container fields no annotation resolves to
WithoutAnnotation(rd) ==
    {rd.fields[i][1] : i \in {j \in 1..Len(rd.fields) :
        /\ ~rd.fields[j][2].Kids
        /\ \A p \in 1..Len(rd.pages) : \A a \in 1..Len(rd.pages[p]) :
              get_full_annotation_field_id(rd.pages[p][a]) # rd.fields[j][1]}}

\* C15: every returned descriptor has a page number and a non-null rect (every
\* option's rect for a radio group); a non-container field that no annotation
\* resolves to is logged and is not in the list.
C15_EveryDescriptorLocated ==
    gpc = "returned" =>
        /\ \A i \in 1..Len(sorted_fields) :
              /\ Len(sorted_fields[i].page) = 1
              /\ IF sorted_fields[i].type = <<"radio_group">>
                 THEN \A k \in 1..Len(sorted_fields[i].radio_options[1]) :
                         Len(sorted_fields[i].radio_options[1][k].rect) > 0
                 ELSE Len(sorted_fields[i].rect) > 0
        /\ \A id \in WithoutAnnotation(reader) :
              /\ \E n \in 1..Len(gfi_printed) :
                    gfi_printed[n] = [line |-> "no location, ignored", id |-> id]
              /\ \A i \in 1..Len(sorted_fields) : sorted_fields[i].field_id # id

\* the annotations, in page and annotation order, whose field id is name and
\* whose /AP /N dictionary has exactly one state other than "/Off"
RadioAnnotations(rd, name) ==
    SelectSeq(PageAnnotations(rd.pages), LAMBDA item :
        /\ get_full_annotation_field_id(item.ann) = name
        /\ item.ann.AP.kind = "N"
        /\ Cardinality({k \in 1..Len(item.ann.AP.N) : item.ann.AP.N[k] # "/Off"}) = 1)

\* the state of such an annotation that is not "/Off"
OnValue(ann) == ann.AP.N[CHOOSE k \in 1..Len(ann.AP.N) : ann.AP.N[k] # "/Off"]

\* C16: for each button field with Kids there is at most one radio_group
\* descriptor; it exists exactly when some annotation of that name has exactly
\* one non-"/Off" appearance state, has one option per such annotation in page
\* and annotation order, and carries the page of the first of them.
C16_OneGroupPerRadioName ==
    gpc = "returned" =>
        \A name \in PossibleRadioNames(reader.fields) :
            LET groups == {i \in 1..Len(sorted_fields) : sorted_fields[i].field_id = name}
                anns == RadioAnnotations(reader, name)
            IN  /\ Cardinality(groups) <= 1
                /\ Len(anns) = 0 => groups = {}
                /\ Len(anns) > 0 =>
                      \E g \in groups :
                          /\ sorted_fields[g].type = <<"radio_group">>
                          /\ sorted_fields[g].page = <<anns[1].page>>
                          /\ sorted_fields[g].radio_options =
                                << [k \in 1..Len(anns) |->
                                      [value |-> OnValue(anns[k].ann),
                                       rect |-> anns[k].ann.Rect]] >>

\* a group of two options on page 2, with an annotation of the same name that
\* has no appearance dictionary between them
C16_Witness ==
    /\ gpc = "returned"
    /\ Len(reader.pages[1]) = 0
    /\ Len(reader.pages[2]) = 3
    /\ \A a \in 1..3 : get_full_annotation_field_id(reader.pages[2][a]) = IdC
    /\ reader.pages[2][2].AP.kind = "absent"
    /\ Len(sorted_fields) = 1
    /\ sorted_fields[1].field_id = IdC
    /\ sorted_fields[1].page = <<2>>
    /\ Len(sorted_fields[1].radio_options[1]) = 2

-----------------------------------------------------------------------------
(* convert (convert_pdf_to_images.py lines 10-26) *)
(*                                                                         *)
(* An image is its size <<width, height>> in pixels.                       *)

ConvMaxPages == 3

\* page sizes at 200 DPI
PageSizes ==
    { <<1700, 2200>>, <<2000, 1000>>, <<800, 600>>, <<1000, 1000>>,
      <<354, 1062>>, <<1062, 531>>, <<3000, 3000>> }

MaxDims == {1000, 500}

Max(a, b) == IF a >= b THEN a ELSE b

\* line 17 with max in place of min
ScaleDivisor_Smaller(width, height) == IF width <= height THEN width ELSE height

\* line 17: min(max_dim / width, max_dim / height) is max_dim / d for this d
\* (binary64 division is monotone in the divisor)
ScaleDivisor(width, height) == Max(width, height)

\* the operands <<x, max_dim, d>> among the sizes above for which the binary64
\* product x * (max_dim / d) is the largest double below the integer
\* x * max_dim / d (1062 * (1000 / 1062) = 999.9999999999999)
RoundedBelow ==
    { <<1062, 1000, 1062>>, <<531, 1000, 1062>>,
      <<1062, 500, 1062>>, <<531, 500, 1062>> }

\* lines 18-19: int(x * scale_factor) with scale_factor = m / d in binary64
ScaledDimension(x, m, d) ==
    IF <<x, m, d>> \in RoundedBelow THEN (x * m) \div d - 1 ELSE (x * m) \div d

\* lines 15-20: image.size after the optional resize
SavedSize(size, m) ==
    IF size[1] > m \/ size[2] > m
    THEN << ScaledDimension(size[1], m, ScaleDivisor(size[1], size[2])),
            ScaledDimension(size[2], m, ScaleDivisor(size[1], size[2])) >>
    ELSE size

\* lines 13-24: one iteration of the page loop
ConvertPage ==
    /\ cpc = "loop"
    /\ conv_i < Len(images)
    /\ saved' = Append(saved, [path |-> <<"page_", conv_i + 1, ".png">>,
                               size |-> SavedSize(images[conv_i + 1], max_dim)])
    /\ conv_i' = conv_i + 1
    /\ UNCHANGED <<cpc, images, max_dim>>
    /\ UNCHANGED notConvVars

\* line 26: the loop is over
ConvertReturn ==
    /\ cpc = "loop"
    /\ conv_i = Len(images)
    /\ cpc' = "returned"
    /\ UNCHANGED <<images, max_dim, conv_i, saved>>
    /\ UNCHANGED notConvVars

ConvInit ==
    /\ cpc = "loop"
    /\ images \in UNION {[1..n -> PageSizes] : n \in 0..ConvMaxPages}
    /\ max_dim \in MaxDims
    /\ conv_i = 0
    /\ saved = << >>

\* convert is not running
ConvIdle ==
    /\ cpc = "idle"
    /\ images = << >>
    /\ max_dim = 0
    /\ conv_i = 0
    /\ saved = << >>

ConvNext == ConvertPage \/ ConvertReturn

-----------------------------------------------------------------------------
(* Properties of convert *)

\* floor(x * s) for the real number s = min(max_dim / width, max_dim / height)
ExactScaled(x, size, m) == (x * m) \div Max(size[1], size[2])

\* page k is not above max_dim in either direction
FitsMaxDim(k) == images[k][1] <= max_dim /\ images[k][2] <= max_dim

-----------------------------------------------------------------------------
(* create_grids (thumbnail.py lines 274-318) *)
(*                                                                         *)
(* The image of slide i is the number i; a grid file is its name and the   *)
(* images create_grid was given.                                           *)

GridMaxSlides == 36

\* line 56
MAX_COLS == 6

\* line 284 with cols * cols
MaxImagesPerGrid_Square(c) == c * c

\* line 284: max_images_per_grid
MaxImagesPerGrid(c) == c * (c + 1)

Min(a, b) == IF a <= b THEN a ELSE b

\* lines 304-311: output_path itself, or its stem with "-<chunk_idx + 1>"
GridFilename(n, c, idx) ==
    IF n <= MaxImagesPerGrid(c)
    THEN <<"prefix", ".jpg">>
    ELSE <<"prefix", "-", idx + 1, ".jpg">>

\* lines 292-316: one iteration of the chunk loop
CreateGrid ==
    /\ grpc = "loop"
    /\ chunk_idx * MaxImagesPerGrid(cols) < Len(image_paths)
    /\ LET start_idx == chunk_idx * MaxImagesPerGrid(cols)
           end_idx == Min(start_idx + MaxImagesPerGrid(cols), Len(image_paths))
           chunk_images == SubSeq(image_paths, start_idx + 1, end_idx)
       IN  grid_files' = Append(grid_files,
               [name |-> GridFilename(Len(image_paths), cols, chunk_idx),
                images |-> chunk_images])
    /\ chunk_idx' = chunk_idx + 1
    /\ UNCHANGED <<grpc, image_paths, cols>>
    /\ UNCHANGED notGridVars

\* line 318: range(0, len(image_paths), max_images_per_grid) is exhausted
CreateGridsReturn ==
    /\ grpc = "loop"
    /\ chunk_idx * MaxImagesPerGrid(cols) >= Len(image_paths)
    /\ grpc' = "returned"
    /\ UNCHANGED <<image_paths, cols, chunk_idx, grid_files>>
    /\ UNCHANGED notGridVars

GridInit ==
    /\ grpc = "loop"
    /\ image_paths \in {[i \in 1..n |-> i] : n \in 0..GridMaxSlides}
    /\ cols \in 1..MAX_COLS
    /\ chunk_idx = 0
    /\ grid_files = << >>

\* create_grids is not running
GridIdle ==
    /\ grpc = "idle"
    /\ image_paths = << >>
    /\ cols = 0
    /\ chunk_idx = 0
    /\ grid_files = << >>

GridNext == CreateGrid \/ CreateGridsReturn

-----------------------------------------------------------------------------
(* Properties of create_grids *)

\* C18: for n >= 1 images and cols in 1..6, create_grids writes
\* ceil(n / (cols * (cols + 1))) files; the chunks are the consecutive slices of
\* the image list, all but the last holding cols * (cols + 1) images; the one
\* file of a deck that fits is <prefix>.jpg, otherwise the files are
\* <prefix>-1.jpg, <prefix>-2.jpg, ... (35 slides at cols 5: 30 and 5 slides).
C18_GridsPartitionTheSlides ==
    (grpc = "returned" /\ Len(image_paths) >= 1) =>
        LET n == Len(image_paths)
            cap == cols * (cols + 1)
            files == Len(grid_files)
        IN  /\ files = (n + cap - 1) \div cap
            /\ \A k \in 1..files :
                  /\ grid_files[k].images =
                        [i \in 1..(IF k < files THEN cap ELSE n - (files - 1) * cap) |->
                            image_paths[(k - 1) * cap + i]]
                  /\ grid_files[k].name =
                        IF n <= cap THEN <<"prefix", ".jpg">>
                        ELSE <<"prefix", "-", k, ".jpg">>
            /\ (n = 35 /\ cols = 5) =>
                  /\ files = 2
                  /\ Len(grid_files[1].images) = 30
                  /\ Len(grid_files[2].images) = 5
            /\ (n = 12 /\ cols = 5) => files = 1 /\ grid_files[1].name = <<"prefix", ".jpg">>

\* 35 slides at 5 columns: prefix-1.jpg with slides 1..30, prefix-2.jpg with 31..35
C18_Witness ==
    /\ grpc = "returned"
    /\ Len(image_paths) = 35
    /\ cols = 5
    /\ Len(grid_files) = 2
    /\ grid_files[1].name = <<"prefix", "-", 1, ".jpg">>
    /\ grid_files[2].name = <<"prefix", "-", 2, ".jpg">>
    /\ grid_files[2].images = <<31, 32, 33, 34, 35>>

-----------------------------------------------------------------------------
(* convert_to_images (thumbnail.py lines 197-271) *)
(*                                                                         *)
(* A slide is the value of its element's show attribute ("absent" when it  *)
(* has none).  The office suite and the rasterizer are external processes: *)
(* each may fail, and the rasterizer leaves some number of slide-*.jpg     *)
(* pages.  An image is a record: a rasterized page or a placeholder.       *)

ImgMaxSlides == 4

ShowValues == {"absent", "0", "1", "false"}

RasterizedPage(p) == [kind |-> "page", n |-> p]

\* line 261: hidden-<slide_num>.jpg
Placeholder(k) == [kind |-> "placeholder", n |-> k]

\* lines 205-209
HiddenSlides(deck) == {k \in 1..Len(deck) : deck[k] = "0"}

\* lines 201-213
Analyze ==
    /\ ipc = "analyze"
    /\ hidden_slides' = HiddenSlides(prs_slides)
    /\ ipc' = "soffice"
    /\ UNCHANGED <<prs_slides, visible_images, slide_num, visible_idx, all_images>>
    /\ UNCHANGED notImgVars

\* lines 219-231: soffice wrote the PDF
ConvertToPdf ==
    /\ ipc = "soffice"
    /\ ipc' = "pdftoppm"
    /\ UNCHANGED <<prs_slides, hidden_slides, visible_images, slide_num, visible_idx, all_images>>
    /\ UNCHANGED notImgVars

\* lines 232-233: non-zero exit status or no PDF
ConvertToPdfFails ==
    /\ ipc = "soffice"
    /\ ipc' = "raised"
    /\ UNCHANGED <<prs_slides, hidden_slides, visible_images, slide_num, visible_idx, all_images>>
    /\ UNCHANGED notImgVars

\* lines 237-256: pdftoppm wrote pages slide-1 .. slide-m
Rasterize ==
    /\ ipc = "pdftoppm"
    /\ \E m \in 0..ImgMaxSlides :
          visible_images' = [p \in 1..m |-> RasterizedPage(p)]
    /\ slide_num' = 1
    /\ ipc' = "assemble"
    /\ UNCHANGED <<prs_slides, hidden_slides, visible_idx, all_images>>
    /\ UNCHANGED notImgVars

\* lines 242-243: non-zero exit status
RasterizeFails ==
    /\ ipc = "pdftoppm"
    /\ ipc' = "raised"
    /\ UNCHANGED <<prs_slides, hidden_slides, visible_images, slide_num, visible_idx, all_images>>
    /\ UNCHANGED notImgVars

\* lines 258-269: one iteration of the slide loop
AssembleSlide ==
    /\ ipc = "assemble"
    /\ slide_num <= Len(prs_slides)
    /\ IF slide_num \in hidden_slides
       THEN /\ all_images' = Append(all_images, Placeholder(slide_num))
            /\ UNCHANGED visible_idx
       ELSE IF visible_idx < Len(visible_images)
       THEN /\ all_images' = Append(all_images, visible_images[visible_idx + 1])
            /\ visible_idx' = visible_idx + 1
       ELSE UNCHANGED <<all_images, visible_idx>>
    /\ slide_num' = slide_num + 1
    /\ UNCHANGED <<ipc, prs_slides, hidden_slides, visible_images>>
    /\ UNCHANGED notImgVars

\* line 271
ReturnImages ==
    /\ ipc = "assemble"
    /\ slide_num > Len(prs_slides)
    /\ ipc' = "returned"
    /\ UNCHANGED <<prs_slides, hidden_slides, visible_images, slide_num, visible_idx, all_images>>
    /\ UNCHANGED notImgVars

ImgInit ==
    /\ ipc = "analyze"
    /\ prs_slides \in UNION {[1..n -> ShowValues] : n \in 0..ImgMaxSlides}
    /\ hidden_slides = {}
    /\ visible_images = << >>
    /\ slide_num = 0
    /\ visible_idx = 0
    /\ all_images = << >>

\* convert_to_images is not running
ImgIdle ==
    /\ ipc = "idle"
    /\ prs_slides = << >>
    /\ hidden_slides = {}
    /\ visible_images = << >>
    /\ slide_num = 0
    /\ visible_idx = 0
    /\ all_images = << >>

ImgNext ==
    \/ Analyze
    \/ ConvertToPdf
    \/ ConvertToPdfFails
    \/ Rasterize
    \/ RasterizeFails
    \/ AssembleSlide
    \/ ReturnImages

-----------------------------------------------------------------------------
(* Properties of convert_to_images *)

\* the number of prs_slides up to slide k whose show attribute is not "0"
VisibleUpTo(k) == Cardinality({j \in 1..k : prs_slides[j] # "0"})

\* C19: the returned sequence has exactly one entry per slide, in slide order:
\* entry k is a placeholder if and only if slide k has show = "0", and otherwise
\* the next rasterized page, the pages being consumed in order.
C19_OneImagePerSlide ==
    ipc = "returned" =>
        /\ Len(all_images) = Len(prs_slides)
        /\ \A k \in 1..Len(all_images) :
              all_images[k] = IF prs_slides[k] = "0"
                              THEN [kind |-> "placeholder", n |-> k]
                              ELSE [kind |-> "page", n |-> VisibleUpTo(k)]

-----------------------------------------------------------------------------
(* GIFBuilder.deduplicate_frames (gif_builder.py lines 123-157) *)
(*                                                                         *)
(* A frame is the sequence of its pixel-channel values.  The threshold is  *)
(* in ten-thousandths (9995 is the default 0.9995); the comparison         *)
(* similarity < threshold is evaluated on the exact fractions.             *)

GifMaxFrames == 3

GifMaxCalls == 2

\* two channel values per frame
GifFrames == [1..2 -> {0, 100, 200}]

Thresholds == {0, 5000, 7000, 9995, 10001}

Abs(x) == IF x < 0 THEN 0 - x ELSE x

\* np.sum(np.abs(prev_frame - curr_frame))
RECURSIVE SumAbsDiff(_, _)
SumAbsDiff(prev_frame, curr_frame) ==
    IF Len(prev_frame) = 0 THEN 0
    ELSE Abs(prev_frame[1] - curr_frame[1]) + SumAbsDiff(Tail(prev_frame), Tail(curr_frame))

\* lines 146-151: 1.0 - (np.mean(diff) / 255.0) < threshold
SimilarityBelow(prev_frame, curr_frame, thr) ==
    (Len(prev_frame) * 255 - SumAbsDiff(prev_frame, curr_frame)) * 10000
        < thr * Len(prev_frame) * 255

\* line 142 comparing with the frame before frame i of the input
PrevFrame_Adjacent(deduplicated, fs, i) == fs[i - 1]

\* line 142 comparing with the first frame kept
PrevFrame_First(deduplicated, fs, i) == deduplicated[1]

\* line 142: deduplicated[-1]
PrevFrame(deduplicated, fs, i) == deduplicated[Len(deduplicated)]

\* lines 140-154: the loop from frame i (1-based) on
RECURSIVE DedupLoop(_, _, _, _)
DedupLoop(acc, fs, i, thr) ==
    IF i > Len(fs) THEN acc
    ELSE IF SimilarityBelow(PrevFrame(acc.deduplicated, fs, i), fs[i], thr)
    THEN DedupLoop([acc EXCEPT !.deduplicated = Append(acc.deduplicated, fs[i])],
                   fs, i + 1, thr)
    ELSE DedupLoop([acc EXCEPT !.removed_count = acc.removed_count + 1], fs, i + 1, thr)

\* lines 134-157: the new self.frames and the returned count
deduplicate_frames(fs, thr) ==
    IF Len(fs) < 2
    THEN [deduplicated |-> fs, removed_count |-> 0]
    ELSE DedupLoop([deduplicated |-> <<fs[1]>>, removed_count |-> 0], fs, 2, thr)

\* lines 123-157
DeduplicateFrames ==
    /\ Len(removed) < GifMaxCalls
    /\ LET result == deduplicate_frames(gif_frames, threshold)
       IN  /\ gif_frames' = result.deduplicated
           /\ frames_before' = Append(frames_before, gif_frames)
           /\ removed' = Append(removed, result.removed_count)
           /\ frames_after' = Append(frames_after, result.deduplicated)
    /\ UNCHANGED threshold
    /\ UNCHANGED notGifVars

GifInit ==
    /\ gif_frames \in UNION {[1..n -> GifFrames] : n \in 0..GifMaxFrames}
    /\ threshold \in Thresholds
    /\ frames_before = << >>
    /\ removed = << >>
    /\ frames_after = << >>

\* no GIFBuilder exists
GifIdle ==
    /\ gif_frames = << >>
    /\ threshold = 0
    /\ frames_before = << >>
    /\ removed = << >>
    /\ frames_after = << >>

GifNext == DeduplicateFrames

-----------------------------------------------------------------------------
(* Properties of deduplicate_frames *)

\* C20: a call of deduplicate_frames directly after another one with the same
\* threshold returns 0 and leaves the frame list as the earlier call left it.
C20_DeduplicateIdempotent ==
    \A k \in 2..Len(removed) :
        /\ removed[k] = 0
        /\ frames_after[k] = frames_after[k - 1]

\* the first call removed a frame and left at least two, the second none
C20_Witness ==
    /\ Len(removed) = 2
    /\ removed[1] > 0
    /\ Len(frames_after[1]) >= 2
    /\ removed[2] = 0
    /\ gif_frames = frames_after[1]

-----------------------------------------------------------------------------
(* GIFBuilder (gif_builder.py lines 16-268) *)
(*                                                                         *)
(* A frame is a record of its array shape (height, width), its dtype and   *)
(* the value of its pixels (every frame here is of one colour, which a     *)
(* resize keeps).  Image.fromarray accepts uint8 arrays and raises         *)
(* TypeError on float64 ones; np.array(pil_image) is always uint8.         *)

\* the operations performed on one builder
GifMaxOps == 2

\* the longest list handed to add_frames
GifMaxBatch == 25

\* the longest self.frames
GifMaxHeld == 26

\* (width, height) the builder is constructed with
CanvasSizes == {<<200, 200>>, <<128, 128>>, <<200, 100>>}

\* one frame: frame.shape[:2] is (height, width)
Frame(w, h, dtype, value) == [width |-> w, height |-> h, dtype |-> dtype, value |-> value]

\* the frames handed to add_frame
SingleFrames ==
    {Frame(200, 200, "uint8", 0), Frame(128, 128, "uint8", 200),
     Frame(200, 200, "float64", 0), Frame(128, 128, "float64", 0)}

\* the list handed to add_frames: n frames of 200x200, each of another colour
Batch(n) == [i \in 1..n |-> Frame(200, 200, "uint8", i)]

NumColors == {128, 32}

\* Image.fromarray(frame) raises TypeError
FromArrayRaises(frame) == frame.dtype # "uint8"

\* lines 45-49 and 202-204: np.array(Image.fromarray(frame).resize((w, h), LANCZOS))
Resize(frame, w, h) == Frame(w, h, "uint8", frame.value)

\* lines 33-51: the frame list add_frame leaves and whether it raised
add_frame(fs, w, h, frame) ==
    IF <<frame.height, frame.width>> # <<h, w>>
    THEN IF FromArrayRaises(frame)
         THEN [frames |-> fs, raised |-> "TypeError"]
         ELSE [frames |-> Append(fs, Resize(frame, w, h)), raised |-> ""]
    ELSE [frames |-> Append(fs, frame), raised |-> ""]

\* lines 53-56
RECURSIVE add_frames(_, _, _, _)
add_frames(fs, w, h, list) ==
    IF Len(list) = 0 THEN [frames |-> fs, raised |-> ""]
    ELSE LET one == add_frame(fs, w, h, Head(list))
         IN  IF one.raised # "" THEN one
             ELSE add_frames(one.frames, w, h, Tail(list))

\* lines 140-154 on the builder's frames: the frames kept and the number removed
RECURSIVE KeepLoop(_, _, _, _)
KeepLoop(acc, fs, i, thr) ==
    IF i > Len(fs) THEN acc
    ELSE IF SimilarityBelow(<<acc.deduplicated[Len(acc.deduplicated)].value>>,
                            <<fs[i].value>>, thr)
    THEN KeepLoop([acc EXCEPT !.deduplicated = Append(acc.deduplicated, fs[i])],
                  fs, i + 1, thr)
    ELSE KeepLoop([acc EXCEPT !.removed_count = acc.removed_count + 1], fs, i + 1, thr)

\* lines 134-157 on the builder's frames
Deduplicated(fs, thr) ==
    IF Len(fs) < 2
    THEN [deduplicated |-> fs, removed_count |-> 0]
    ELSE KeepLoop([deduplicated |-> <<fs[1]>>, removed_count |-> 0], fs, 2, thr)

\* lines 71-121: optimize_colors raises at Image.fromarray (lines 111, 117)
OptimizeColorsRaises(fs) == \E i \in 1..Len(fs) : FromArrayRaises(fs[i])

\* line 214 with a stride that would bring the count to 12 or fewer
keep_every_Ceiling(n) == (n + 11) \div 12

\* line 214: max(1, len(self.frames) // 12)
keep_every(n) == IF n \div 12 > 1 THEN n \div 12 ELSE 1

\* lines 215-217: [self.frames[i] for i in range(0, len(self.frames), keep_every)]
EveryNth(fs, stride) ==
    [k \in 1..((Len(fs) + stride - 1) \div stride) |-> fs[1 + (k - 1) * stride]]

\* lines 209-217
EmojiFrameReduction(fs) ==
    IF Len(fs) > 12 THEN EveryNth(fs, keep_every(Len(fs))) ELSE fs

\* lines 178-264: the builder save() leaves, the report it returns (<< >> when it
\* raised), the exception, and the frame list before and after lines 208-217
save(w, h, fs, num_colors, optimize_for_emoji, remove_duplicates) ==
    LET fs1 == IF remove_duplicates THEN Deduplicated(fs, 9995).deduplicated ELSE fs
        clamp == optimize_for_emoji /\ (w > 128 \/ h > 128)
        w2 == IF clamp THEN 128 ELSE w
        h2 == IF clamp THEN 128 ELSE h
        resize_raises == clamp /\ \E i \in 1..Len(fs1) : FromArrayRaises(fs1[i])
        fs2 == IF clamp THEN [i \in 1..Len(fs1) |-> Resize(fs1[i], 128, 128)] ELSE fs1
        colors == IF optimize_for_emoji /\ num_colors > 48 THEN 48 ELSE num_colors
        fs3 == IF optimize_for_emoji THEN EmojiFrameReduction(fs2) ELSE fs2
    IN  IF Len(fs) = 0
        THEN [width |-> w, height |-> h, frames |-> fs, info |-> << >>,
              raised |-> "ValueError", reduction |-> << >>]
        ELSE IF resize_raises
        THEN [width |-> w2, height |-> h2, frames |-> fs1, info |-> << >>,
              raised |-> "TypeError", reduction |-> << >>]
        ELSE IF OptimizeColorsRaises(fs3)
        THEN [width |-> w2, height |-> h2, frames |-> fs3, info |-> << >>,
              raised |-> "TypeError",
              reduction |-> IF optimize_for_emoji
                            THEN <<[before |-> fs2, after |-> fs3]>> ELSE << >>]
        ELSE [width |-> w2, height |-> h2, frames |-> fs3,
              info |-> <<[dimensions |-> <<w2, h2>>, frame_count |-> Len(fs3),
                          colors |-> colors, emoji |-> optimize_for_emoji,
                          canvas |-> <<w, h>>, held |-> Len(fs)]>>,
              raised |-> "",
              reduction |-> IF optimize_for_emoji
                            THEN <<[before |-> fs2, after |-> fs3]>> ELSE << >>]

\* lines 33-51
AddFrame ==
    /\ gb_ops < GifMaxOps
    /\ Len(gb_frames) < GifMaxHeld
    /\ \E frame \in SingleFrames :
          LET result == add_frame(gb_frames, gb_width, gb_height, frame)
          IN  /\ gb_frames' = result.frames
              /\ gb_raised' = result.raised
    /\ gb_ops' = gb_ops + 1
    /\ UNCHANGED <<gb_width, gb_height, gb_info, gb_reduction>>
    /\ UNCHANGED notBuilderVars

\* lines 53-56
AddFrames ==
    /\ gb_ops < GifMaxOps
    /\ \E n \in 1..GifMaxBatch :
          /\ Len(gb_frames) + n <= GifMaxHeld
          /\ LET result == add_frames(gb_frames, gb_width, gb_height, Batch(n))
             IN  /\ gb_frames' = result.frames
                 /\ gb_raised' = result.raised
    /\ gb_ops' = gb_ops + 1
    /\ UNCHANGED <<gb_width, gb_height, gb_info, gb_reduction>>
    /\ UNCHANGED notBuilderVars

\* lines 58-121: the returned list is new, self.frames stays
OptimizeColors ==
    /\ gb_ops < GifMaxOps
    /\ gb_raised' = IF OptimizeColorsRaises(gb_frames) THEN "TypeError" ELSE ""
    /\ gb_ops' = gb_ops + 1
    /\ UNCHANGED <<gb_width, gb_height, gb_frames, gb_info, gb_reduction>>
    /\ UNCHANGED notBuilderVars

\* lines 123-157
BuilderDeduplicate ==
    /\ gb_ops < GifMaxOps
    /\ gb_frames' = Deduplicated(gb_frames, 9995).deduplicated
    /\ gb_raised' = ""
    /\ gb_ops' = gb_ops + 1
    /\ UNCHANGED <<gb_width, gb_height, gb_info, gb_reduction>>
    /\ UNCHANGED notBuilderVars

\* lines 159-264
Save ==
    /\ gb_ops < GifMaxOps
    /\ \E num_colors \in NumColors, optimize_for_emoji \in BOOLEAN,
          remove_duplicates \in BOOLEAN :
          LET result == save(gb_width, gb_height, gb_frames, num_colors,
                             optimize_for_emoji, remove_duplicates)
          IN  /\ gb_width' = result.width
              /\ gb_height' = result.height
              /\ gb_frames' = result.frames
              /\ gb_info' = result.info
              /\ gb_raised' = result.raised
              /\ gb_reduction' = result.reduction
    /\ gb_ops' = gb_ops + 1
    /\ UNCHANGED notBuilderVars

\* lines 266-268
Clear ==
    /\ gb_ops < GifMaxOps
    /\ gb_frames' = << >>
    /\ gb_raised' = ""
    /\ gb_ops' = gb_ops + 1
    /\ UNCHANGED <<gb_width, gb_height, gb_info, gb_reduction>>
    /\ UNCHANGED notBuilderVars

\* lines 19-31: GIFBuilder(width, height)
BuilderInit ==
    /\ \E size \in CanvasSizes :
          /\ gb_width = size[1]
          /\ gb_height = size[2]
    /\ gb_frames = << >>
    /\ gb_info = << >>
    /\ gb_raised = ""
    /\ gb_reduction = << >>
    /\ gb_ops = 0

\* no GIFBuilder was constructed
BuilderIdle ==
    /\ gb_width = 0
    /\ gb_height = 0
    /\ gb_frames = << >>
    /\ gb_info = << >>
    /\ gb_raised = ""
    /\ gb_reduction = << >>
    /\ gb_ops = 0

BuilderNext ==
    \/ AddFrame
    \/ AddFrames
    \/ OptimizeColors
    \/ BuilderDeduplicate
    \/ Save
    \/ Clear

-----------------------------------------------------------------------------
(* Properties of GIFBuilder *)

\* C21: a save with optimize_for_emoji of one or more frames on a canvas wider
\* or higher than 128 reports dimensions 128x128, at most 48 colours and at
\* most 12 frames.
C21_EmojiSaveWithinLimits ==
    \A k \in 1..Len(gb_info) :
        (gb_info[k].emoji /\ (gb_info[k].canvas[1] > 128 \/ gb_info[k].canvas[2] > 128))
            => /\ gb_info[k].dimensions = <<128, 128>>
               /\ gb_info[k].colors <= 48
               /\ gb_info[k].frame_count <= 12

\* C22: every frame the builder holds has the builder's height and width.
C22_FramesHaveBuilderSize ==
    \A i \in 1..Len(gb_frames) :
        /\ gb_frames[i].height = gb_height
        /\ gb_frames[i].width = gb_width

\* C28: the emoji frame reduction leaves n frames when n <= 12 and
\* ceil(n / floor(n/12)) frames when n > 12, between 12 and 23 of them; frame k
\* of the result is frame 1 + (k-1)*floor(n/12) of the frames before, so the
\* first frame stays and the order is kept.
C28_EmojiReductionCount ==
    \A r \in 1..Len(gb_reduction) :
        LET before == gb_reduction[r].before
            after == gb_reduction[r].after
            n == Len(before)
            step == n \div 12
        IN  /\ n >= 1
            /\ n <= 12 => after = before
            /\ n > 12 =>
                  /\ Len(after) * step >= n
                  /\ (Len(after) - 1) * step < n
                  /\ Len(after) >= 12
                  /\ Len(after) <= 23
                  /\ \A k \in 1..Len(after) : after[k] = before[1 + (k - 1) * step]
            /\ after[1] = before[1]

\* 24 frames became 12
C28_Witness ==
    /\ Len(gb_reduction) = 1
    /\ Len(gb_reduction[1].before) = 24
    /\ Len(gb_reduction[1].after) = 12
    /\ gb_reduction[1].after[2] = gb_reduction[1].before[3]

-----------------------------------------------------------------------------
(* validate_gif and is_slack_ready (validators.py lines 11-136) *)
(*                                                                         *)
(* What is at gif_path is "missing", "unreadable" (Image.open raises) or   *)
(* a GIF with its pixel size, its size in bytes, its frame count and its   *)
(* per-frame duration in milliseconds.  The state keeps the last two       *)
(* calls.  Durations are in milliseconds.                                  *)

\* the pixel sizes of the GIF files
GifSizes ==
    {<<64, 64>>, <<128, 128>>, <<63, 63>>, <<129, 129>>, <<0, 0>>,
     <<320, 640>>, <<640, 1280>>, <<1281, 640>>, <<641, 641>>, <<319, 319>>}

\* the pixel sizes that also come as a large, long file
LargeGifSizes == {<<64, 64>>, <<63, 63>>, <<320, 640>>, <<1281, 640>>}

\* one GIF file
GifFile(size, size_bytes, frame_count, duration_ms) ==
    [kind |-> "gif", width |-> size[1], height |-> size[2], size_bytes |-> size_bytes,
     frame_count |-> frame_count, duration_ms |-> duration_ms]

\* what gif_path may name: nothing, a file that is no image, a GIF of 1 KB with
\* one frame of 100 ms, or a GIF of 6 MB with 50 frames of 0 ms
GifPaths ==
    {[kind |-> "missing"], [kind |-> "unreadable"]}
        \cup {GifFile(size, 1024, 1, 100) : size \in GifSizes}
        \cup {GifFile(size, 6291456, 50, 0) : size \in LargeGifSizes}

\* line 65
optimal(width, height) == width = height /\ height = 128

\* line 66 without the upper limit
acceptable_NoUpperLimit(width, height) == width = height /\ 64 <= width

\* line 66
acceptable(width, height) == width = height /\ 64 <= width /\ width <= 128

\* lines 69-73 and the first half of line 74: aspect_ratio <= 2.0
AspectRatioAtMostTwo(width, height) ==
    IF Min(width, height) > 0
    THEN Max(width, height) <= 2 * Min(width, height)
    ELSE FALSE

\* lines 64-74 gated by the file size as well
dim_pass_SizeGated(gif, is_emoji) ==
    /\ gif.size_bytes <= 5242880
    /\ IF is_emoji
       THEN acceptable(gif.width, gif.height)
       ELSE /\ AspectRatioAtMostTwo(gif.width, gif.height)
            /\ 320 <= Min(gif.width, gif.height)
            /\ Min(gif.width, gif.height) <= 640

\* lines 64-74
dim_pass(gif, is_emoji) ==
    IF is_emoji
    THEN acceptable(gif.width, gif.height)
    ELSE /\ AspectRatioAtMostTwo(gif.width, gif.height)
         /\ 320 <= Min(gif.width, gif.height)
         /\ Min(gif.width, gif.height) <= 640

\* lines 91-116: the notes printed after the three detail lines
ValidatePrints(gif, is_emoji) ==
    <<"dimensions", "size", "frames">>
        \o (IF dim_pass(gif, is_emoji) THEN << >> ELSE <<"dimension note">>)
        \o (IF gif.size_bytes > 5242880 THEN <<"size note">> ELSE << >>)

\* lines 11-118: the returned pair, the lines printed and whether it raised
validate_gif(gif, is_emoji, verbose) ==
    IF gif.kind = "missing"
    THEN [passes |-> FALSE, results |-> [error |-> "not found"], printed |-> << >>,
          raised |-> FALSE]
    ELSE IF gif.kind = "unreadable"
    THEN [passes |-> FALSE, results |-> [error |-> "read failed"], printed |-> << >>,
          raised |-> FALSE]
    ELSE LET total_duration == gif.duration_ms * gif.frame_count
         IN  [passes |-> dim_pass(gif, is_emoji),
              results |->
                 [passes |-> dim_pass(gif, is_emoji),
                  width |-> gif.width,
                  height |-> gif.height,
                  size_bytes |-> gif.size_bytes,
                  frame_count |-> gif.frame_count,
                  duration_ms |-> total_duration,
                  fps |-> IF total_duration > 0
                          THEN (gif.frame_count * 1000) \div total_duration ELSE 0,
                  is_emoji |-> is_emoji,
                  optimal |-> IF is_emoji
                              THEN <<optimal(gif.width, gif.height)>> ELSE << >>],
              printed |-> IF verbose THEN ValidatePrints(gif, is_emoji) ELSE << >>,
              raised |-> FALSE]

\* lines 121-136
is_slack_ready(gif, is_emoji, verbose) == validate_gif(gif, is_emoji, verbose).passes

\* the last two calls after one more call
LastTwo(calls_before, call) ==
    IF Len(calls_before) = 2 THEN <<calls_before[2], call>> ELSE Append(calls_before, call)

\* lines 11-118
ValidateGif ==
    /\ \E gif \in GifPaths, is_emoji \in BOOLEAN, verbose \in BOOLEAN :
          vg_calls' = LastTwo(vg_calls,
                 [fn |-> "validate_gif", gif |-> gif, is_emoji |-> is_emoji,
                  verbose |-> verbose,
                  returned |-> validate_gif(gif, is_emoji, verbose).passes,
                  results |-> <<validate_gif(gif, is_emoji, verbose).results>>,
                  raised |-> validate_gif(gif, is_emoji, verbose).raised])
    /\ UNCHANGED notVgVars

\* lines 121-136
IsSlackReady ==
    /\ \E gif \in GifPaths, is_emoji \in BOOLEAN, verbose \in BOOLEAN :
          vg_calls' = LastTwo(vg_calls,
                 [fn |-> "is_slack_ready", gif |-> gif, is_emoji |-> is_emoji,
                  verbose |-> verbose,
                  returned |-> is_slack_ready(gif, is_emoji, verbose),
                  results |-> << >>,
                  raised |-> validate_gif(gif, is_emoji, verbose).raised])
    /\ UNCHANGED notVgVars

VgInit == vg_calls = << >>

\* neither function was called
VgIdle == vg_calls = << >>

VgNext == ValidateGif \/ IsSlackReady

-----------------------------------------------------------------------------
(* Properties of validate_gif *)

\* the calls on a readable GIF
OnReadable(k) == vg_calls[k].gif.kind = "gif"

\* C23: on a readable GIF validate_gif returns (width = height and
\* 64 <= width <= 128) for an emoji target and (the longer side at most twice the
\* shorter and 320 <= shorter side <= 640) for a message target; the record's
\* 'passes' is the returned boolean, 'optimal' (128x128) implies pass and is None
\* for a message target, is_slack_ready returns what validate_gif returns, and a
\* missing file gives (False, record with an error entry) without raising.
C23_ValidateGifVerdict ==
    \A k \in 1..Len(vg_calls) :
        LET call == vg_calls[k]
            gif == call.gif
            short == Min(gif.width, gif.height)
            long == Max(gif.width, gif.height)
            expected == IF call.is_emoji
                        THEN gif.width = gif.height /\ 64 <= gif.width /\ gif.width <= 128
                        ELSE short > 0 /\ long <= 2 * short /\ 320 <= short /\ short <= 640
        IN  /\ ~call.raised
            /\ OnReadable(k) => call.returned = expected
            /\ (OnReadable(k) /\ call.fn = "validate_gif") =>
                  /\ call.results[1].passes = call.returned
                  /\ call.is_emoji =>
                        /\ call.results[1].optimal = <<gif.width = 128 /\ gif.height = 128>>
                        /\ call.results[1].optimal = <<TRUE>> => call.returned
                  /\ ~call.is_emoji => call.results[1].optimal = << >>
            /\ (gif.kind = "missing" /\ call.fn = "validate_gif") =>
                  /\ call.returned = FALSE
                  /\ "error" \in DOMAIN call.results[1]
            /\ (gif.kind = "missing" /\ call.fn = "is_slack_ready") => call.returned = FALSE

\* an optimal emoji passed, judged by validate_gif and then by is_slack_ready
C23_Witness ==
    /\ Len(vg_calls) = 2
    /\ vg_calls[1].fn = "validate_gif"
    /\ vg_calls[2].fn = "is_slack_ready"
    /\ vg_calls[1].gif = vg_calls[2].gif
    /\ vg_calls[1].is_emoji /\ vg_calls[2].is_emoji
    /\ OnReadable(1)
    /\ vg_calls[1].results[1].optimal = <<TRUE>>
    /\ vg_calls[1].returned /\ vg_calls[2].returned

\* C30: two calls on readable GIFs of the same pixel size with the same is_emoji
\* return the same verdict, whatever the file sizes, frame counts, durations
\* and verbose flags.
C30_VerdictDependsOnDimensionsOnly ==
    \A j, k \in 1..Len(vg_calls) :
        ( /\ OnReadable(j) /\ OnReadable(k)
          /\ vg_calls[j].gif.width = vg_calls[k].gif.width
          /\ vg_calls[j].gif.height = vg_calls[k].gif.height
          /\ vg_calls[j].is_emoji = vg_calls[k].is_emoji )
            => vg_calls[j].returned = vg_calls[k].returned

\* two passing calls on GIFs of one size that differ in file size, frame count,
\* duration and verbose flag
C30_Witness ==
    /\ Len(vg_calls) = 2
    /\ OnReadable(1) /\ OnReadable(2)
    /\ vg_calls[1].gif.width = vg_calls[2].gif.width
    /\ vg_calls[1].gif.height = vg_calls[2].gif.height
    /\ vg_calls[1].is_emoji = vg_calls[2].is_emoji
    /\ vg_calls[1].gif.size_bytes < vg_calls[2].gif.size_bytes
    /\ vg_calls[1].gif.frame_count < vg_calls[2].gif.frame_count
    /\ vg_calls[1].gif.duration_ms # vg_calls[2].gif.duration_ms
    /\ vg_calls[1].verbose # vg_calls[2].verbose
    /\ vg_calls[1].returned /\ vg_calls[2].returned

-----------------------------------------------------------------------------
(* package_skill (package_skill.py lines 19-82) *)
(*                                                                         *)
(* A path is the sequence of its components.  What is at skill_path is     *)
(* "missing", a "file" or a "dir" with a tree: each relative file path     *)
(* mapped to its content ("absent" when there is no such file).            *)
(* validate_skill is the external validator; its verdict is an input.      *)
(* An archive is the set of its entries.                                   *)

\* the names of the skill directories
SkillNames == {"foo", "bar"}

\* the files a skill directory may hold, relative to it
RelPaths == {<<"SKILL.md">>, <<"scripts", "run.py">>, <<"references", "api.md">>}

Contents == {"absent", "a", "b"}

\* Path.cwd()
Cwd == <<"work">>

\* skill_path of the skill named name
SkillPath(name) == <<"skills", name>>

\* the argument output_dir: None, a directory elsewhere, the skill directory itself,
\* a directory inside it
OutputDirs(name) ==
    {<< >>, <<<<"dist">>>>, <<SkillPath(name)>>, <<SkillPath(name) \o <<"scripts">>>>}

\* p is base or lies under it
IsUnder(p, base) == Len(p) >= Len(base) /\ SubSeq(p, 1, Len(base)) = base

\* file_path.relative_to(base)
RelativeTo(p, base) == SubSeq(p, Len(base) + 1, Len(p))

\* skill_path.parent
Parent(p) == SubSeq(p, 1, Len(p) - 1)

\* lines 58-62
OutputPath(output_dir) == IF output_dir # << >> THEN output_dir[1] ELSE Cwd

\* line 64
SkillFilename(skill_path, output_dir) ==
    Append(OutputPath(output_dir), skill_path[Len(skill_path)] \o ".skill")

\* zipf.write with ZIP_DEFLATED and the extraction of that entry
Deflate(content) == <<"deflated", content>>

Inflate(data) == data[2]

\* line 73 relative to the skill directory itself
arcname_WithoutSkillName(file_path, skill_path) == RelativeTo(file_path, skill_path)

\* line 73
arcname(file_path, skill_path) == RelativeTo(file_path, Parent(skill_path))

\* lines 70-71: the files skill_path.rglob('*') yields once the archive file is open
RglobFiles(skill_path, tree, skill_filename) ==
    {[path |-> skill_path \o rel, content |-> tree[rel]] :
        rel \in {r \in RelPaths : tree[r] # "absent"}}
    \cup (IF IsUnder(skill_filename, skill_path)
          THEN {[path |-> skill_filename, content |-> "archive being written"]}
          ELSE {})

\* lines 68-75: the entries of the finished archive
ZipEntries(skill_path, tree, skill_filename) ==
    {[arcname |-> arcname(f.path, skill_path), data |-> Deflate(f.content)] :
        f \in RglobFiles(skill_path, tree, skill_filename)}

\* what unzipping the archive writes
Unzip(entries) == {[path |-> e.arcname, content |-> Inflate(e.data)] : e \in entries}

\* lines 30-82: the archive written (<< >> when none), the value returned and the
\* message printed
package_skill(skill, output_dir, io) ==
    LET skill_path == SkillPath(skill.name)
        skill_filename == SkillFilename(skill_path, output_dir)
        entries == ZipEntries(skill_path, skill.tree, skill_filename)
    IN  IF skill.kind = "missing"
        THEN [archive |-> << >>, return |-> << >>, printed |-> "not found"]
        ELSE IF skill.kind # "dir"
        THEN [archive |-> << >>, return |-> << >>, printed |-> "not a directory"]
        ELSE IF skill.tree[<<"SKILL.md">>] = "absent"
        THEN [archive |-> << >>, return |-> << >>, printed |-> "no SKILL.md"]
        ELSE IF ~skill.valid
        THEN [archive |-> << >>, return |-> << >>, printed |-> "validation failed"]
        ELSE IF io = "fails"
        THEN [archive |-> <<[path |-> skill_filename, entries |-> {}]>>,
              return |-> << >>, printed |-> "error creating .skill"]
        ELSE [archive |-> <<[path |-> skill_filename, entries |-> entries]>>,
              return |-> <<skill_filename>>, printed |-> "packaged"]

\* lines 19-82
PackageSkill ==
    /\ pkpc = "call"
    /\ LET result == package_skill(pk_skill, pk_output_dir, pk_io)
       IN  /\ pk_archive' = result.archive
           /\ pk_return' = result.return
           /\ pk_printed' = result.printed
    /\ pkpc' = "returned"
    /\ UNCHANGED <<pk_skill, pk_output_dir, pk_io>>
    /\ UNCHANGED notPackageVars

\* every bounded skill path, validator verdict, output directory and disk
PackageInit ==
    /\ pkpc = "call"
    /\ \E kind \in {"missing", "file", "dir"}, name \in SkillNames,
          tree \in [RelPaths -> Contents], valid \in BOOLEAN :
          /\ pk_skill = [kind |-> kind, name |-> name, tree |-> tree, valid |-> valid]
          /\ pk_output_dir \in OutputDirs(name)
    /\ pk_io \in {"ok", "fails"}
    /\ pk_archive = << >>
    /\ pk_return = << >>
    /\ pk_printed = ""

\* package_skill is not called
PackageIdle ==
    /\ pkpc = "idle"
    /\ pk_skill = << >>
    /\ pk_output_dir = << >>
    /\ pk_io = "ok"
    /\ pk_archive = << >>
    /\ pk_return = << >>
    /\ pk_printed = ""

PackageNext == PackageSkill

-----------------------------------------------------------------------------
(* Properties of package_skill *)

\* the files under the skill directory when packaging starts, as an archive
\* named after the skill would unpack them
OriginalFiles ==
    {[path |-> <<pk_skill.name>> \o rel, content |-> pk_skill.tree[rel]] :
        rel \in {r \in RelPaths : pk_skill.tree[r] # "absent"}}

\* the call got past the four checks of lines 33-53
PassedChecks ==
    /\ pk_skill.kind = "dir"
    /\ pk_skill.tree[<<"SKILL.md">>] # "absent"
    /\ pk_skill.valid

\* a call that returned the archive's path wrote <output directory>/N.skill
ReturnedArchive ==
    /\ pkpc = "returned"
    /\ pk_return # << >>
    /\ Len(pk_archive) = 1
    /\ pk_archive[1].path = Append(OutputPath(pk_output_dir), pk_skill.name \o ".skill")
    /\ pk_return[1] = pk_archive[1].path

\* no archive is written when one of the four checks fails
NoArchiveWhenRejected ==
    (pkpc = "returned" /\ ~PassedChecks) => (pk_archive = << >> /\ pk_return = << >>)

-----------------------------------------------------------------------------
(* init_skill (init_skill.py lines 193-269) *)
(*                                                                         *)
(* The state is what is at <path>/<skill_name>: << >> when nothing is,     *)
(* else a file or a directory with its tree, a set of entries.  A file     *)
(* written from a template holds the template's name and the skill name it *)
(* was formatted with.  Each call draws the step at which the file system  *)
(* fails (0 for none); a failing step leaves nothing behind.               *)

\* the calls of init_skill with the same arguments
ScaffoldMaxCalls == 2

\* the argument skill_name
ScaffoldNames == {"my-skill", "pdf"}

DirEntry(path) == [path |-> path, kind |-> "dir"]

FileEntry(path, template, skill_name, mode) ==
    [path |-> path, kind |-> "file", content |-> <<template, skill_name>>, mode |-> mode]

\* what may be at <path>/<skill_name> before the first call
ExistingTargets ==
    {<< >>,
     <<[kind |-> "file", tree |-> {}]>>,
     <<[kind |-> "dir", tree |-> {}]>>,
     <<[kind |-> "dir", tree |-> {FileEntry("SKILL.md", "written by hand", "", "644")}]>>}

\* lines 236-257 without the assets directory
ResourceSteps_WithoutAssets ==
    <<[op |-> "mkdir", path |-> "scripts"],
      [op |-> "write", path |-> "scripts/example.py", template |-> "EXAMPLE_SCRIPT"],
      [op |-> "chmod", path |-> "scripts/example.py"],
      [op |-> "mkdir", path |-> "references"],
      [op |-> "write", path |-> "references/api_reference.md",
       template |-> "EXAMPLE_REFERENCE"]>>

\* lines 236-257: the steps of the second try block, in order
ResourceSteps ==
    <<[op |-> "mkdir", path |-> "scripts"],
      [op |-> "write", path |-> "scripts/example.py", template |-> "EXAMPLE_SCRIPT"],
      [op |-> "chmod", path |-> "scripts/example.py"],
      [op |-> "mkdir", path |-> "references"],
      [op |-> "write", path |-> "references/api_reference.md",
       template |-> "EXAMPLE_REFERENCE"],
      [op |-> "mkdir", path |-> "assets"],
      [op |-> "write", path |-> "assets/example_asset.txt", template |-> "EXAMPLE_ASSET"]>>

\* mkdir(exist_ok=True), write_text and chmod(0o755) on the tree
ApplyStep(tree, step, skill_name) ==
    IF step.op = "mkdir" THEN tree \cup {DirEntry(step.path)}
    ELSE IF step.op = "write"
    THEN {e \in tree : e.path # step.path}
            \cup {FileEntry(step.path, step.template, skill_name, "644")}
    ELSE {IF e.path = step.path THEN [e EXCEPT !.mode = "755"] ELSE e : e \in tree}

\* the tree after the first n steps
RECURSIVE ApplySteps(_, _, _, _)
ApplySteps(tree, steps, n, skill_name) ==
    IF n = 0 THEN tree
    ELSE ApplyStep(ApplySteps(tree, steps, n - 1, skill_name), steps[n], skill_name)

\* the steps at which a call may fail: 1 is the mkdir of line 214, 2 the write of
\* line 229, 3 and up the steps of lines 236-257
FailurePoints == 0..(2 + Len(ResourceSteps))

\* lines 193-269: what is at skill_dir afterwards, the value returned and the
\* message printed
init_skill(target, skill_name, fail_at) ==
    LET created == {}
        with_md == ApplyStep(created,
                             [op |-> "write", path |-> "SKILL.md",
                              template |-> "SKILL_TEMPLATE"], skill_name)
        done == IF fail_at = 0 THEN Len(ResourceSteps) ELSE fail_at - 3
    IN  IF target # << >>
        THEN [target |-> target, return |-> << >>, printed |-> "already exists"]
        ELSE IF fail_at = 1
        THEN [target |-> << >>, return |-> << >>, printed |-> "error creating directory"]
        ELSE IF fail_at = 2
        THEN [target |-> <<[kind |-> "dir", tree |-> created]>>, return |-> << >>,
              printed |-> "error creating SKILL.md"]
        ELSE IF fail_at # 0
        THEN [target |-> <<[kind |-> "dir",
                            tree |-> ApplySteps(with_md, ResourceSteps, done, skill_name)]>>,
              return |-> << >>, printed |-> "error creating resource directories"]
        ELSE [target |-> <<[kind |-> "dir",
                            tree |-> ApplySteps(with_md, ResourceSteps, done, skill_name)]>>,
              return |-> <<skill_name>>, printed |-> "initialized"]

\* lines 193-269
ScaffoldSkill ==
    /\ Len(is_calls) < ScaffoldMaxCalls
    /\ \E fail_at \in FailurePoints :
          LET result == init_skill(is_target, is_skill_name, fail_at)
          IN  /\ is_target' = result.target
              /\ is_calls' = Append(is_calls,
                                    [fail_at |-> fail_at, before |-> is_target,
                                     after |-> result.target, return |-> result.return,
                                     printed |-> result.printed])
    /\ UNCHANGED is_skill_name
    /\ UNCHANGED notScaffoldVars

ScaffoldInit ==
    /\ is_skill_name \in ScaffoldNames
    /\ is_target \in ExistingTargets
    /\ is_calls = << >>

\* init_skill is not called
ScaffoldIdle ==
    /\ is_skill_name = ""
    /\ is_target = << >>
    /\ is_calls = << >>

ScaffoldNext == ScaffoldSkill

-----------------------------------------------------------------------------
(* Properties of init_skill *)

\* the files of a directory tree
FilesOf(target) == {e.path : e \in {f \in target[1].tree : f.kind = "file"}}

-----------------------------------------------------------------------------
(* Further properties of apply_replacements *)

\* the cleared shapes for which the replacement document holds a non-empty
\* paragraph list
WithNonEmptyParagraphs ==
    {p \in Cleared(inventory, pptx_file.slides) :
        Len(Get(ReplacementShapeData(replacements, p[1], p[2]), "paragraphs", << >>)) > 0}

\* C26: once the mutation loop has run, the replaced count is the number of
\* inventoried shapes with a non-empty replacement paragraph list; a shape whose
\* entry carries an empty list counts as cleared, not as replaced.
C26_ReplacedCountsNonEmptyLists ==
    (\E i \in 1..Len(log) : log[i] = "mutate") =>
        counts.replaced = Cardinality(WithNonEmptyParagraphs)

-----------------------------------------------------------------------------
(* Further properties of deduplicate_frames *)

\* the frames of fs at the positions in kept, from position i on, in order
RECURSIVE FramesAt(_, _, _)
FramesAt(fs, kept, i) ==
    IF i > Len(fs) THEN << >>
    ELSE IF i \in kept THEN <<fs[i]>> \o FramesAt(fs, kept, i + 1)
    ELSE FramesAt(fs, kept, i + 1)

\* the last position before i that is in kept
LastKeptBefore(kept, i) == CHOOSE j \in kept : j < i /\ \A m \in kept : m < i => m <= j

\* kept holds position 1 and, of the later positions, those whose frame is
\* below the threshold against the frame at the last kept position before it
KeptByRule(fs, kept, thr) ==
    /\ 1 \in kept
    /\ \A i \in 2..Len(fs) :
          i \in kept <=> SimilarityBelow(fs[LastKeptBefore(kept, i)], fs[i], thr)

\* C27: a call on n >= 1 frames keeps the first frame and, in their order, the
\* later frames whose similarity to the most recently kept frame is below the
\* threshold; the returned count and the number of frames left add up to n, and
\* adjacent frames of the result are below the threshold against each other.
C27_KeepsFramesUnlikeTheLastKept ==
    \A k \in 1..Len(removed) :
        LET before == frames_before[k]
            after == frames_after[k]
        IN  Len(before) >= 1 =>
               /\ \E kept \in SUBSET (1..Len(before)) :
                     /\ KeptByRule(before, kept, threshold)
                     /\ after = FramesAt(before, kept, 1)
               /\ after[1] = before[1]
               /\ removed[k] + Len(after) = Len(before)
               /\ \A i \in 2..Len(after) : SimilarityBelow(after[i - 1], after[i], threshold)

\* the second frame was dropped and the third kept, although the third is at or
\* above the threshold against the second
C27_Witness ==
    /\ Len(removed) >= 1
    /\ Len(frames_before[1]) = 3
    /\ removed[1] = 1
    /\ frames_after[1] = <<frames_before[1][1], frames_before[1][3]>>
    /\ ~SimilarityBelow(frames_before[1][2], frames_before[1][3], threshold)

-----------------------------------------------------------------------------
(* Further properties of get_field_info *)

\* the ids of the ordinary (non-container) fields
OrdinaryIds == {FieldInfoById(reader.fields)[i][1] : i \in 1..Len(FieldInfoById(reader.fields))}

\* the positions, in page and annotation order, of the annotations resolving to id
AnnotationsOf(id) ==
    {n \in 1..Len(PageAnnotations(reader.pages)) :
        get_full_annotation_field_id(PageAnnotations(reader.pages)[n].ann) = id}

\* the last annotation resolving to id
LastAnnotationOf(id) ==
    PageAnnotations(reader.pages)
        [CHOOSE n \in AnnotationsOf(id) : \A m \in AnnotationsOf(id) : m <= n]

\* C29: no two descriptors of the returned list share a field_id; the ordinary
\* field ids and the candidate radio-group names are disjoint; an ordinary
\* field's descriptor carries the page and rect of the last annotation, in page
\* order, that resolves to its id; a radio-group name has one descriptor at most.
C29_FieldIdsUnique ==
    gpc = "returned" =>
        /\ \A i, j \in 1..Len(sorted_fields) :
              i # j => sorted_fields[i].field_id # sorted_fields[j].field_id
        /\ OrdinaryIds \cap PossibleRadioNames(reader.fields) = {}
        /\ \A i \in 1..Len(sorted_fields) :
              LET f == sorted_fields[i]
              IN  IF f.type = <<"radio_group">>
                  THEN f.field_id \in PossibleRadioNames(reader.fields)
                  ELSE /\ f.field_id \in OrdinaryIds
                       /\ AnnotationsOf(f.field_id) # {}
                       /\ f.page = <<LastAnnotationOf(f.field_id).page>>
                       /\ f.rect = LastAnnotationOf(f.field_id).ann.Rect

\* an ordinary field with annotations on both pages: its one descriptor is placed
\* by the annotation of page 2
C29_Witness ==
    /\ gpc = "returned"
    /\ \E i \in 1..Len(sorted_fields) :
          LET f == sorted_fields[i]
          IN  /\ f.type # <<"radio_group">>
              /\ Cardinality(AnnotationsOf(f.field_id)) >= 2
              /\ \E n \in AnnotationsOf(f.field_id) :
                    /\ PageAnnotations(reader.pages)[n].page = 1
                    /\ PageAnnotations(reader.pages)[n].ann.Rect # f.rect
              /\ f.page = <<2>>

-----------------------------------------------------------------------------
(* Specifications *)

\* apply_replacements on every input presentation and replacement document
Init == ReplaceInit /\ DocxIdle /\ WsIdle /\ DelIdle /\ MfdIdle /\ GfiIdle /\ ConvIdle /\ GridIdle /\ ImgIdle /\ GifIdle /\ BuilderIdle /\ VgIdle /\ PackageIdle /\ ScaffoldIdle

Next == ReplaceNext

Spec == Init /\ [][Next]_vars

\* one call of DOCXSchemaValidator.validate()
InitDocx == DocxInit /\ ReplaceIdle /\ WsIdle /\ DelIdle /\ MfdIdle /\ GfiIdle /\ ConvIdle /\ GridIdle /\ ImgIdle /\ GifIdle /\ BuilderIdle /\ VgIdle /\ PackageIdle /\ ScaffoldIdle

SpecDocx == InitDocx /\ [][DocxNext]_vars

\* one call of validate_whitespace_preservation on every bounded package
InitWhitespace == WsInit /\ ReplaceIdle /\ DocxIdle /\ DelIdle /\ MfdIdle /\ GfiIdle /\ ConvIdle /\ GridIdle /\ ImgIdle /\ GifIdle /\ BuilderIdle /\ VgIdle /\ PackageIdle /\ ScaffoldIdle

SpecWhitespace == InitWhitespace /\ [][WsNext]_vars

\* one call of validate_deletions on every bounded package
InitDeletions == DelInit /\ ReplaceIdle /\ DocxIdle /\ WsIdle /\ MfdIdle /\ GfiIdle /\ ConvIdle /\ GridIdle /\ ImgIdle /\ GifIdle /\ BuilderIdle /\ VgIdle /\ PackageIdle /\ ScaffoldIdle

SpecDeletions == InitDeletions /\ [][DelNext]_vars

\* one call of make_field_dict on every bounded field
InitFieldDict == MfdInit /\ ReplaceIdle /\ DocxIdle /\ WsIdle /\ DelIdle /\ GfiIdle /\ ConvIdle /\ GridIdle /\ ImgIdle /\ GifIdle /\ BuilderIdle /\ VgIdle /\ PackageIdle /\ ScaffoldIdle

SpecFieldDict == InitFieldDict /\ [][MfdNext]_vars

\* one call of get_field_info on every bounded reader
InitFieldInfo == GfiInit /\ ReplaceIdle /\ DocxIdle /\ WsIdle /\ DelIdle /\ MfdIdle /\ ConvIdle /\ GridIdle /\ ImgIdle /\ GifIdle /\ BuilderIdle /\ VgIdle /\ PackageIdle /\ ScaffoldIdle

SpecFieldInfo == InitFieldInfo /\ [][GfiNext]_vars

\* one call of convert on every bounded PDF
InitConvert ==
    ConvInit /\ ReplaceIdle /\ DocxIdle /\ WsIdle /\ DelIdle /\ MfdIdle /\ GfiIdle /\ GridIdle /\ ImgIdle /\ GifIdle /\ BuilderIdle /\ VgIdle /\ PackageIdle /\ ScaffoldIdle

SpecConvert == InitConvert /\ [][ConvNext]_vars

\* one call of create_grids for every deck size and column count
InitGrids ==
    GridInit /\ ReplaceIdle /\ DocxIdle /\ WsIdle /\ DelIdle /\ MfdIdle /\ GfiIdle /\ ConvIdle /\ ImgIdle /\ GifIdle /\ BuilderIdle /\ VgIdle /\ PackageIdle /\ ScaffoldIdle

SpecGrids == InitGrids /\ [][GridNext]_vars

\* one call of convert_to_images on every bounded deck
InitImages ==
    ImgInit /\ ReplaceIdle /\ DocxIdle /\ WsIdle /\ DelIdle /\ MfdIdle /\ GfiIdle /\ ConvIdle /\ GridIdle /\ GifIdle /\ BuilderIdle /\ VgIdle /\ PackageIdle /\ ScaffoldIdle

SpecImages == InitImages /\ [][ImgNext]_vars

\* calls of deduplicate_frames, one directly after the other, on every bounded builder
InitGif ==
    GifInit /\ ReplaceIdle /\ DocxIdle /\ WsIdle /\ DelIdle /\ MfdIdle /\ GfiIdle /\ ConvIdle /\ GridIdle /\ ImgIdle /\ BuilderIdle /\ VgIdle /\ PackageIdle /\ ScaffoldIdle

SpecGif == InitGif /\ [][GifNext]_vars

\* up to GifMaxOps operations on every constructed GIFBuilder
InitBuilder ==
    BuilderInit /\ ReplaceIdle /\ DocxIdle /\ WsIdle /\ DelIdle /\ MfdIdle /\ GfiIdle /\ ConvIdle /\ GridIdle /\ ImgIdle /\ GifIdle /\ VgIdle /\ PackageIdle /\ ScaffoldIdle

SpecBuilder == InitBuilder /\ [][BuilderNext]_vars

\* calls of validate_gif and is_slack_ready on every bounded file
InitValidators ==
    VgInit /\ ReplaceIdle /\ DocxIdle /\ WsIdle /\ DelIdle /\ MfdIdle /\ GfiIdle /\ ConvIdle /\ GridIdle /\ ImgIdle /\ GifIdle /\ BuilderIdle /\ PackageIdle /\ ScaffoldIdle

SpecValidators == InitValidators /\ [][VgNext]_vars

\* one call of package_skill on every bounded skill path and output directory
InitPackage ==
    PackageInit /\ ReplaceIdle /\ DocxIdle /\ WsIdle /\ DelIdle /\ MfdIdle /\ GfiIdle /\ ConvIdle /\ GridIdle /\ ImgIdle /\ GifIdle /\ BuilderIdle /\ VgIdle /\ ScaffoldIdle

SpecPackage == InitPackage /\ [][PackageNext]_vars

\* calls of init_skill with the same arguments, one after the other
InitScaffold ==
    ScaffoldInit /\ ReplaceIdle /\ DocxIdle /\ WsIdle /\ DelIdle /\ MfdIdle /\ GfiIdle /\ ConvIdle /\ GridIdle /\ ImgIdle /\ GifIdle /\ BuilderIdle /\ VgIdle /\ PackageIdle

SpecScaffold == InitScaffold /\ [][ScaffoldNext]_vars

====
